---------------------------- MODULE Spec2Model ----------------------------
(***************************************************************************)
(* A model of the probabilistic multi-tier lookup of                       *)
(* backend-template-express:                                               *)
(*   - BloomFilter (src/src/structs/BloomFilter.ts),                       *)
(*   - EntityLookupService (src/src/middlewares/rbac.ts, second half),     *)
(*   - AbstractMultiLayerLookupService and UsernameLookupService           *)
(*     (src/src/services/lookup).                                          *)
(***************************************************************************)
EXTENDS Integers, Sequences, FiniteSets, TLC

(***************************************************************************)
(* Bounds of the model.                                                    *)
(***************************************************************************)
\* Number of distinct elements / usernames the callers use.
NumElements == 3
\* constructor argument `size` of the filter under test
FilterSize == 8
\* constructor argument `numberOfHashFunctions` of the filter under test
HashCount == 2
\* BloomFilter.MAX_CACHE_SIZE (1000 in the source), scaled down so that the
\* oldest-first eviction of getHashes happens with NumElements elements.
MAX_CACHE_SIZE == 2
\* Number of distinct keys (usernames) the lookup services are asked about.
NumKeys == 2
\* Number of lookup-service calls that may be in flight at the same time.
NumCalls == 1

\* largest options.maxThreads a ThreadsManager is constructed with (16 by
\* default, 2 in EntityLookupService)
MaxThreadsOption == 2
\* ThreadsManager options.operationsPerThread (1000 by default), scaled down
operationsPerThread == 2
\* assignOperation calls that can be in progress together
NumOps == 2
\* assignOperation calls issued in one run
MaxOperations == 3
\* worker threads created in one run
MaxWorkers == 3

AllElements == <<"a", "b", "c", "d", "e">>
Elements == {AllElements[i] : i \in 1..NumElements}
Keys == {AllElements[i] : i \in 1..NumKeys}
Calls == 1..NumCalls

(***************************************************************************)
(* Hash material.  SHA256 holds the real SHA-256 digests of the elements   *)
(* (32 bytes each); XXH64 holds the real 64-bit xxHash values (8 bytes,    *)
(* big endian) of the elements under the seeds 0xabcd + i * 0x1234,        *)
(* i = 0..3, which are the seeds generateXXHashes uses.                    *)
(***************************************************************************)
SHA256 ==
  [e \in {"a", "b", "c", "d", "e"} |->
    CASE e = "a" -> <<202, 151, 129, 18, 202, 27, 189, 202, 250, 194, 49, 179, 154, 35, 220, 77,
                      167, 134, 239, 248, 20, 124, 78, 114, 185, 128, 119, 133, 175, 238, 72, 187>>
      [] e = "b" -> <<62, 35, 232, 22, 0, 57, 89, 74, 51, 137, 79, 101, 100, 225, 177, 52,
                      139, 189, 122, 0, 136, 212, 44, 74, 203, 115, 238, 174, 213, 156, 0, 157>>
      [] e = "c" -> <<46, 125, 44, 3, 169, 80, 122, 226, 101, 236, 245, 181, 53, 104, 133, 165,
                      51, 147, 162, 2, 157, 36, 19, 148, 153, 114, 101, 161, 162, 90, 239, 198>>
      [] e = "d" -> <<24, 172, 62, 115, 67, 240, 22, 137, 12, 81, 14, 147, 249, 53, 38, 17,
                      105, 217, 227, 245, 101, 67, 100, 41, 131, 15, 175, 9, 52, 244, 248, 228>>
      [] e = "e" -> <<63, 121, 187, 123, 67, 91, 5, 50, 22, 81, 218, 239, 211, 116, 205, 198,
                      129, 220, 6, 250, 166, 94, 55, 78, 56, 51, 123, 136, 202, 4, 109, 234>>]

XXH64 ==
  [e \in {"a", "b", "c", "d", "e"} |->
    CASE e = "a" -> << <<165, 252, 82, 38, 1, 3, 43, 129>>, <<189, 213, 102, 100, 83, 44, 68, 52>>,
                       <<4, 218, 245, 160, 141, 132, 2, 42>>, <<173, 32, 33, 175, 205, 223, 236, 231>> >>
      [] e = "b" -> << <<84, 84, 203, 83, 249, 124, 38, 117>>, <<236, 33, 106, 210, 74, 129, 98, 40>>,
                       <<231, 220, 138, 241, 103, 59, 199, 255>>, <<10, 43, 13, 161, 165, 92, 231, 140>> >>
      [] e = "c" -> << <<152, 29, 141, 100, 218, 174, 65, 154>>, <<3, 162, 213, 238, 43, 144, 111, 76>>,
                       <<202, 247, 61, 46, 2, 29, 120, 122>>, <<2, 248, 36, 199, 243, 114, 46, 213>> >>
      [] e = "d" -> << <<238, 69, 39, 111, 60, 77, 243, 191>>, <<42, 217, 47, 3, 27, 68, 139, 1>>,
                       <<29, 58, 230, 54, 234, 214, 171, 5>>, <<224, 65, 2, 104, 77, 171, 104, 105>> >>
      [] e = "e" -> << <<35, 80, 162, 195, 204, 166, 1, 130>>, <<148, 137, 245, 233, 111, 110, 124, 1>>,
                       <<191, 239, 16, 207, 130, 255, 19, 80>>, <<15, 56, 7, 102, 150, 71, 152, 142>> >>]

(***************************************************************************)
(* JavaScript integer arithmetic.                                          *)
(***************************************************************************)
\* (b0 << 24) | (b1 << 16) | (b2 << 8) | b3 as the signed 32-bit integer that
\* the bitwise operators of JavaScript produce.  For a set top bit the value
\* is u - 2^32 = -(complement) - 1, computed without leaving 32 bits.
ToInt32 (b0, b1, b2, b3) ==
  IF b0 < 128
    THEN b0 * 16777216 + b1 * 65536 + b2 * 256 + b3
    ELSE -((255 - b0) * 16777216 + (255 - b1) * 65536 + (255 - b2) * 256 + (255 - b3)) - 1

\* The remainder operator % of JavaScript: the result has the sign of the
\* dividend.  -a is taken as (-(a + 1)) + 1 so that a = -2^31 stays in range.
JSRem (a, n) ==
  IF a >= 0 THEN a % n ELSE -((((-(a + 1)) % n) + 1) % n)

\* An unsigned big-endian byte string modulo n (the 64-bit hash value % size).
RECURSIVE ModBytes (_, _)
ModBytes (bytes, n) ==
  IF bytes = <<>> THEN 0
  ELSE (ModBytes(SubSeq(bytes, 1, Len(bytes) - 1), n) * 256 + bytes[Len(bytes)]) % n

(***************************************************************************)
(* BloomFilter.  A filter is a record                                      *)
(*   size, numberOfHashFunctions, bitArray, hashCache, xxHasher.           *)
(* bitArray is a function on 0..size-1 that, like a JavaScript array,      *)
(* gains a property when an index outside this range is assigned; reading  *)
(* an absent index yields undefined.  hashCache is the Map in insertion    *)
(* order, a sequence of [key, hashes].  xxHasher is TRUE once xxhash()     *)
(* has resolved.                                                           *)
(***************************************************************************)
BloomFilter_new (size, numberOfHashFunctions) ==
  [size |-> size,
   numberOfHashFunctions |-> numberOfHashFunctions,
   bitArray |-> [i \in 0..(size - 1) |-> 0],
   hashCache |-> <<>>,
   xxHasher |-> FALSE]

serializeElement (element) == element

generateXXHashes (f, input) ==
  [i \in 1..f.numberOfHashFunctions |-> ModBytes(XXH64[input][i], f.size)]

generateCryptoHashes (f, input) ==
  [i \in 1..f.numberOfHashFunctions |->
     LET baseHash == SHA256[input]
         j == (i - 1) * 4
     IN JSRem(ToInt32(baseHash[(j % 32) + 1], baseHash[((j + 1) % 32) + 1],
                      baseHash[((j + 2) % 32) + 1], baseHash[((j + 3) % 32) + 1]),
              f.size)]

generateHashesEfficiently (f, input) ==
  IF f.xxHasher THEN generateXXHashes(f, input) ELSE generateCryptoHashes(f, input)

CacheKeys (cache) == {cache[i].key : i \in 1..Len(cache)}
CacheGet (cache, k) == (CHOOSE i \in 1..Len(cache) : cache[i].key = k)

\* getHashes: the hashes of the element and the filter with its cache updated.
getHashes (f, element) ==
  LET serialized == serializeElement(element) IN
  IF serialized \in CacheKeys(f.hashCache)
    THEN [hashes |-> f.hashCache[CacheGet(f.hashCache, serialized)].hashes, filter |-> f]
    ELSE LET hashes == generateHashesEfficiently(f, serialized)
             kept == IF Len(f.hashCache) >= MAX_CACHE_SIZE /\ Len(f.hashCache) > 0
                       THEN Tail(f.hashCache) ELSE f.hashCache
         IN [hashes |-> hashes,
             filter |-> [f EXCEPT !.hashCache =
                                   Append(kept, [key |-> serialized, hashes |-> hashes])]]

\* this.bitArray[hash] === 0: an absent index reads undefined, which is not 0.
BitIsZero (bitArray, h) == h \in DOMAIN bitArray /\ bitArray[h] = 0

SetBits (bitArray, hashes) ==
  LET hs == {hashes[i] : i \in DOMAIN hashes}
  IN [x \in (DOMAIN bitArray) \cup hs |-> IF x \in hs THEN 1 ELSE bitArray[x]]

\* has: false as soon as one position reads exactly 0.
BloomFilter_has (f, element) ==
  LET g == getHashes(f, element)
  IN [result |-> ~(\E i \in DOMAIN g.hashes : BitIsZero(f.bitArray, g.hashes[i])),
      filter |-> g.filter]

\* add: the implicit has, then the bits of getHashes (a second lookup).
BloomFilter_add (f, element) ==
  LET h == BloomFilter_has(f, element) IN
  IF ~h.result
    THEN LET g == getHashes(h.filter, element)
         IN [result |-> TRUE,
             filter |-> [g.filter EXCEPT !.bitArray = SetBits(g.filter.bitArray, g.hashes)]]
    ELSE [result |-> FALSE, filter |-> h.filter]

clearCache (f) == [f EXCEPT !.hashCache = <<>>]

\* [...bitArray]: a new array of the elements at the indices from 0 up;
\* properties under other keys (a negative hash) are not copied
Spread (bitArray) == [i \in {x \in DOMAIN bitArray : x >= 0} |-> bitArray[i]]

\* An IBloomFilterState object.  typed: bitArray is an array and size and
\* numberOfHashFunctions are numbers; alias: bitArray is the very array
\* object of the live filter.
NoState == [typed |-> FALSE, size |-> 0, numberOfHashFunctions |-> 0,
            bitArray |-> <<>>, alias |-> FALSE]

\* Mutant of BloomFilter_export: the array is handed out, not a copy.
BloomFilter_export_shares (f) ==
  [typed |-> TRUE, size |-> f.size, numberOfHashFunctions |-> f.numberOfHashFunctions,
   bitArray |-> f.bitArray, alias |-> TRUE]

\* export
BloomFilter_export (f) ==
  [typed |-> TRUE, size |-> f.size, numberOfHashFunctions |-> f.numberOfHashFunctions,
   bitArray |-> Spread(f.bitArray), alias |-> FALSE]

\* import: the state is refused on the types of its fields only; size,
\* numberOfHashFunctions and a copy of bitArray are taken and the cache is
\* cleared
BloomFilter_import (f, state) ==
  IF ~state.typed THEN [ok |-> FALSE, filter |-> f]
  ELSE [ok |-> TRUE,
        filter |-> [f EXCEPT !.size = state.size,
                             !.numberOfHashFunctions = state.numberOfHashFunctions,
                             !.bitArray = Spread(state.bitArray),
                             !.hashCache = <<>>]]

\* initXXHash: the awaited xxhash() resolved and the hasher is stored.
initXXHash (f) == [f EXCEPT !.xxHasher = TRUE]

(***************************************************************************)
(* Entities, and what the volatile cache holds.  An entity read from the   *)
(* store is an object; the cache holds JSON.stringify(entity) and a cache  *)
(* hit returns JSON.parse of that text, which is no longer the object the  *)
(* store returned (its dates are strings).                                 *)
(***************************************************************************)
NoEntity == [id |-> "null", form |-> "none"]
EntityOf (id) == [id |-> id, form |-> "object"]
JSONstringify (entity) == [id |-> entity.id, form |-> "text"]
JSONparse (text) == [id |-> text.id, form |-> "parsed"]

\* the entity an add call of slot c carries, and the one a key holds from the start
NewIds == <<"new1", "new2", "new3", "new4">>
EntityOfCall (c) == EntityOf(NewIds[c])
EntityOfKey (k) == EntityOf(k)

\* ILookupOptions after the defaults of exists were applied
DefaultOptions ==
  [skipBloomFilter |-> FALSE, skipRedisCache |-> FALSE,
   forceDatabaseCheck |-> FALSE, updateCachesIfFound |-> TRUE]
AllOptions ==
  [skipBloomFilter : BOOLEAN, skipRedisCache : BOOLEAN,
   forceDatabaseCheck : BOOLEAN, updateCachesIfFound : BOOLEAN]

\* What a call has produced: still pending, a returned value, or a thrown error.
NoResult ==
  [kind |-> "pending", exists |-> FALSE, entity |-> NoEntity, source |-> "", error |-> ""]
Returned (exists, entity, source) ==
  [kind |-> "return", exists |-> exists, entity |-> entity, source |-> source, error |-> ""]
Thrown (error) ==
  [kind |-> "throw", exists |-> FALSE, entity |-> NoEntity, source |-> "", error |-> error]

NoAnswers == [filter |-> "none", cache |-> "none", store |-> "none"]

\* One call of a lookup service.  op, key, options, entity and pc are the
\* call's arguments, locals and position; the other fields are history:
\* queried (the tiers read, in the order the reads were issued), writes (the
\* tier writes completed for the call), answers (what each tier answered),
\* failedWrite (the tier whose write threw), afterStoppedAdd (the call
\* started on a key whose add had stopped after its store write).  bg is the
\* position of the updateCaches the call left running behind it.
IdleCall ==
  [op |-> "idle", key |-> "", options |-> DefaultOptions, entity |-> NoEntity,
   pc |-> "idle", bg |-> "none", result |-> NoResult,
   queried |-> <<>>, writes |-> <<>>, answers |-> NoAnswers,
   failedWrite |-> "none", afterStoppedAdd |-> FALSE]

Terminal == {"idle", "done", "stopped"}

(***************************************************************************)
(* The worker pool (ThreadsManager) and its worker threads.                *)
(***************************************************************************)
Ops == 1..NumOps
WorkerIds == 1..MaxWorkers
PoolActions == {"add", "save"}
PoolPayload == "b"

\* A message posted to a worker, and a response posted by it.  operationId 0
\* stands for a message that carries none (getState, shutdown).
Message (action, payload, operationId) ==
  [action |-> action, payload |-> payload, operationId |-> operationId]
Response (operationId, kind, data) ==
  [operationId |-> operationId, kind |-> kind, data |-> data]

\* A worker thread: status none (not created yet), running or exited; the
\* module variables bloomFilter and initialized of the worker script; the
\* messages posted to it and not handled yet (inbox); the responses it
\* posted that the main thread has not received yet (outbox); the handlers
\* suspended at an await on file I/O (suspended).  History: overlapped, a
\* handler began while another handler of the thread had not ended.
NoFilter == [size |-> 0, numberOfHashFunctions |-> 0, bitArray |-> <<>>,
             hashCache |-> <<>>, xxHasher |-> FALSE]
NoWorker ==
  [status |-> "none", bloomFilter |-> NoFilter, initialized |-> FALSE,
   inbox |-> <<>>, outbox |-> <<>>, suspended |-> <<>>, overlapped |-> FALSE]

\* One call of assignOperation.  pc: idle, creating (createThread awaits
\* fileSystem.exists), found or created (findAvailableThread returned an
\* existing or a new thread, the caller's continuation is a pending
\* microtask), waiting (dispatched, the race is
\* pending), done (settled).  action and timeout are the arguments, kept
\* until they are used; threadIdx, worker and operationId the locals of
\* the call, kept while its message handler is registered (listening);
\* timer: its timeout timer is pending.  History: late, a response reached
\* the handler after the call was settled.
NoOutcome == [kind |-> "pending", data |-> "", error |-> ""]
Resolved (data) == [kind |-> "return", data |-> data, error |-> ""]
Rejected (error) == [kind |-> "throw", data |-> "", error |-> error]
IdleOp ==
  [pc |-> "idle", action |-> "", timeout |-> FALSE, threadIdx |-> 0, worker |-> 0,
   operationId |-> 0, listening |-> FALSE, timer |-> FALSE, result |-> NoOutcome,
   late |-> FALSE]

\* One run of recycleThread, started by the message handler of a call.
\* pc: none, getState (getThreadState waits for its 1 s timer), grace
\* (terminateThread waits 100 ms), creating (createThread awaits
\* fileSystem.exists), done.  index is the argument; worker the thread
\* terminateThread read at that index.
NoRecycle == [pc |-> "none", index |-> 0, worker |-> 0]

\* terminateAll: pc none, saving (awaits saveState), grace (every
\* terminateThread waits 100 ms), done; workers are the threads the
\* terminateThread calls read at their indices; state is the snapshot its
\* saveState call took and has not written.
NoTerminateAll == [pc |-> "none", workers |-> <<>>, state |-> <<>>]

(***************************************************************************)
(* The checkpoint of the pool: ThreadsManager.metadata, the file at        *)
(* options.statePath, JSON and the Encryption codec.                       *)
(***************************************************************************)
\* saveState calls of callers and of the timer in progress at once
MaxSaves == 1
SaveIds == 1..MaxSaves
MetaKeys == {"k"}
\* values given to setMetadata: a string, and the number NaN
NaN == "NaN"
MetaValues == {"v", NaN}
\* the JavaScript value null
Null == "null"
\* a key the mapping does not have
Absent == "absent"
NoMetadata == [k \in MetaKeys |-> Absent]
Passwords == {"p", "q"}

\* the state object saveState builds; workloads, activeThreads and
\* lastUpdated are written too, and no code reads them back
ThreadState (operations, meta) == [operations |-> operations, metadata |-> meta]

\* JSON.stringify of a state object: a number that is not finite is
\* written as null
JSON_stringify (state) ==
  [json |-> TRUE, operations |-> state.operations,
   metadata |-> [k \in MetaKeys |->
                   IF state.metadata[k] = NaN THEN Null ELSE state.metadata[k]]]
\* a text that is not JSON
NotJson == [json |-> FALSE, operations |-> 0, metadata |-> NoMetadata]
\* JSON.parse
JSON_parse (text) ==
  IF text.json THEN [ok |-> TRUE, state |-> ThreadState(text.operations, text.metadata)]
  ELSE [ok |-> FALSE, state |-> ThreadState(0, NoMetadata)]

\* The file at statePath: none, damaged (truncated or overwritten bytes),
\* or what Encryption.encrypt returned: AES-256-GCM under a key derived
\* from the password.  History: from, the state object the text was made of.
NoFile == [kind |-> "none", text |-> NotJson, password |-> "", from |-> <<>>]
DamagedFile == [kind |-> "damaged", text |-> NotJson, password |-> "", from |-> <<>>]
Encryption_encrypt (text, password, from) ==
  [kind |-> "encrypted", text |-> text, password |-> password, from |-> from]
\* Encryption.decrypt: the authentication tag is checked, so damaged bytes
\* or another password make it throw
Encryption_decrypt (file, password) ==
  IF file.kind = "encrypted" /\ file.password = password
    THEN [ok |-> TRUE, text |-> file.text]
    ELSE [ok |-> FALSE, text |-> NotJson]

\* Mutant of saveState_catch: no catch clause, a failure is thrown on.
saveState_rethrows (ok) == IF ok THEN "returned" ELSE "raised"

\* how a saveState call ends: its try block covers every step and its
\* catch clause only logs
saveState_catch (ok) == "returned"

\* saveState after its snapshot: ensureDir, JSON.stringify,
\* Encryption.encrypt with options.encryptionPassword, writeFile; when one
\* of them fails the file is as it was
writeState (file, state, password, ok) ==
  IF ok THEN Encryption_encrypt(JSON_stringify(state), password, state) ELSE file

\* One saveState call of a caller or of the timer: pc none (also when the
\* call has returned), pending, raised.
NoSave == [pc |-> "none", state |-> <<>>]

\* One loadState call: pc none, read (the file was read, decrypt is
\* awaited), done; file is what was read; result is what it returned.
NoLoad == [pc |-> "none", file |-> NoFile, result |-> "none"]

\* Mutant of loadState_catch: no catch clause, a failure is thrown on.
loadState_rethrows (missing) == IF missing THEN "false" ELSE "raised"

\* how a loadState call that cannot restore ends: false when the file is
\* missing, and false from its catch clause when a step threw
loadState_catch (missing) == "false"

\* loadState after the file was read: Encryption.decrypt, JSON.parse, and
\* only then the two assignments (a parsed state of saveState has metadata,
\* and `operations || 0` is its operations)
loadState (file, password, counter, meta) ==
  LET d == Encryption_decrypt(file, password)
      p == JSON_parse(d.text)
  IN
  IF file.kind = "none" \/ ~d.ok \/ ~p.ok
    THEN [result |-> loadState_catch(file.kind = "none"),
          operationCounter |-> counter, metadata |-> meta]
    ELSE [result |-> "true",
          operationCounter |-> p.state.operations, metadata |-> p.state.metadata]

(***************************************************************************)
(* State.                                                                  *)
(***************************************************************************)
VARIABLES
  bloomFilter,   \* the BloomFilter instance
  added,         \* history: the elements add() was called with
  lastOp,        \* history: the last filter operation and what it returned
  held,          \* the filter state object in the hands of the caller
  service,       \* which lookup service the callers use
  redis,         \* the volatile cache: key -> cached text or NoEntity
  db,            \* the durable store: key -> entity or NoEntity
  calls,         \* the lookup-service calls, one record per slot
  stoppedAdds,   \* history: keys whose add stopped between store and cache write
  bloomFilterInitialized,  \* EntityLookupService.bloomFilterInitialized
  threads,          \* ThreadsManager.threads: the worker ids tracked, by index
  threadWorkLoads,  \* ThreadsManager.threadWorkLoads
  operationCounter, \* ThreadsManager.operationCounter
  isShuttingDown,   \* ThreadsManager.isShuttingDown
  workers,          \* the worker threads ever created, by thread id
  ops,              \* the assignOperation calls, one record per slot
  recycles,         \* the recycleThread run each call slot started
  terminateAll,     \* the terminateAll call
  issued,           \* history: the number of operation ids issued
  poolOptions,      \* ThreadsManager.options, as given to the constructor
  metadata,         \* ThreadsManager.metadata
  stateFile,        \* the file at options.statePath
  saves,            \* the saveState calls in progress, terminateAll's apart
  loading,          \* the loadState call
  autoSaveTimer     \* ThreadsManager.autoSaveTimer is set

checkpointVars == <<metadata, saves, loading>>
poolVars == <<threads, threadWorkLoads, operationCounter, isShuttingDown, workers,
              ops, recycles, terminateAll, issued, poolOptions, stateFile,
              autoSaveTimer, checkpointVars>>
lookupVars == <<bloomFilter, added, lastOp, held, redis, db, calls, stoppedAdds,
                bloomFilterInitialized>>
lookupRest == <<bloomFilter, lastOp, held, redis, db, calls, stoppedAdds,
                bloomFilterInitialized>>
vars == <<bloomFilter, added, lastOp, held, service, redis, db, calls, stoppedAdds,
          bloomFilterInitialized, poolVars>>
tierVars == <<service, redis, db, calls, stoppedAdds, bloomFilterInitialized>>

maxThreads == poolOptions.maxThreads

NoOp == [op |-> "none", element |-> "", result |-> FALSE, wasAdded |-> FALSE]

\* a freshly constructed ThreadsManager: no unit, no call
PoolIdle ==
  /\ threads = <<>>
  /\ threadWorkLoads = <<>>
  /\ operationCounter = 0
  /\ isShuttingDown = FALSE
  /\ workers = [w \in WorkerIds |-> NoWorker]
  /\ ops = [c \in Ops |-> IdleOp]
  /\ recycles = [c \in Ops |-> NoRecycle]
  /\ terminateAll = NoTerminateAll
  /\ issued = 0
  /\ poolOptions = [maxThreads |-> MaxThreadsOption, encryptionPassword |-> "p"]
  /\ metadata = NoMetadata
  /\ stateFile = NoFile
  /\ saves = [c \in SaveIds |-> NoSave]
  /\ loading = NoLoad
  /\ autoSaveTimer = TRUE

(***************************************************************************)
(* The filter on its own: a caller adds, queries and clears the cache      *)
(* while the constructor's initXXHash may complete at any time.            *)
(***************************************************************************)
FilterInit ==
  /\ bloomFilter = BloomFilter_new(FilterSize, HashCount)
  /\ added = {}
  /\ lastOp = NoOp
  /\ held = NoState
  /\ service = "BloomFilter"
  /\ redis = [k \in Keys |-> NoEntity]
  /\ db = [k \in Keys |-> NoEntity]
  /\ calls = [c \in Calls |-> IdleCall]
  /\ stoppedAdds = {}
  /\ bloomFilterInitialized = FALSE
  /\ PoolIdle

FilterAdd (e) ==
  LET r == BloomFilter_add(bloomFilter, e) IN
  /\ bloomFilter' = r.filter
  /\ added' = added \cup {e}
  /\ lastOp' = [op |-> "add", element |-> e, result |-> r.result, wasAdded |-> e \in added]
  /\ held' = IF held.alias THEN [held EXCEPT !.bitArray = r.filter.bitArray] ELSE held
  /\ UNCHANGED <<poolVars, tierVars>>

FilterHas (e) ==
  LET r == BloomFilter_has(bloomFilter, e) IN
  /\ bloomFilter' = r.filter
  /\ lastOp' = [op |-> "has", element |-> e, result |-> r.result, wasAdded |-> e \in added]
  /\ UNCHANGED <<poolVars, held, added, tierVars>>

FilterClearCache ==
  /\ bloomFilter.hashCache # <<>>
  /\ bloomFilter' = clearCache(bloomFilter)
  /\ lastOp' = [NoOp EXCEPT !.op = "clearCache"]
  /\ UNCHANGED <<poolVars, held, added, tierVars>>

FilterInitXXHash ==
  /\ ~bloomFilter.xxHasher
  /\ bloomFilter' = initXXHash(bloomFilter)
  /\ lastOp' = [NoOp EXCEPT !.op = "initXXHash"]
  /\ UNCHANGED <<poolVars, held, added, tierVars>>

\* the caller takes the state of the filter, once
FilterExport ==
  /\ held = NoState
  /\ held' = BloomFilter_export(bloomFilter)
  /\ lastOp' = [NoOp EXCEPT !.op = "export"]
  /\ UNCHANGED <<poolVars, bloomFilter, added, tierVars>>

\* state objects a caller makes up: all bits 0, of the length of size or
\* one short, with or without hash functions, and one that is no state
CraftedStates ==
  {NoState} \cup
  {[typed |-> TRUE, size |-> FilterSize, numberOfHashFunctions |-> k,
    bitArray |-> [i \in 0..(n - 1) |-> 0], alias |-> FALSE] :
     k \in {0, HashCount}, n \in {FilterSize - 1, FilterSize}}

\* import of the state the caller holds or of one it made up; the filter
\* then holds an array of its own, and what was added to the old one is
\* no longer followed
FilterImport (state) ==
  LET r == BloomFilter_import(bloomFilter, state) IN
  /\ state = held \/ state \in CraftedStates
  /\ bloomFilter' = r.filter
  /\ added' = IF r.ok THEN {} ELSE added
  /\ held' = IF r.ok THEN [held EXCEPT !.alias = FALSE] ELSE held
  /\ lastOp' = [NoOp EXCEPT !.op = "import", !.result = r.ok]
  /\ UNCHANGED <<poolVars, tierVars>>

\* indices at which the caller writes into the array of the state it holds
WriteIndices == {0}

\* the caller writes a bit of the state object it holds; the write reaches
\* the filter when the array is the filter's
FilterCallerWrites (i, v) ==
  /\ held.typed
  /\ i \in DOMAIN held.bitArray
  /\ held.bitArray[i] # v
  /\ held' = [held EXCEPT !.bitArray[i] = v]
  /\ bloomFilter' = IF held.alias THEN [bloomFilter EXCEPT !.bitArray[i] = v]
                    ELSE bloomFilter
  /\ lastOp' = [NoOp EXCEPT !.op = "write"]
  /\ UNCHANGED <<poolVars, added, tierVars>>

FilterNext ==
  \/ \E e \in Elements : FilterAdd(e)
  \/ \E e \in Elements : FilterHas(e)
  \/ FilterClearCache
  \/ FilterInitXXHash

SpecFilter == FilterInit /\ [][FilterNext]_vars

\* A filter whose caller adds elements and takes, changes and gives back
\* its state.
FilterState == "BloomFilter.state"

FilterStateInit ==
  /\ bloomFilter = BloomFilter_new(FilterSize, HashCount)
  /\ added = {}
  /\ lastOp = NoOp
  /\ held = NoState
  /\ service = FilterState
  /\ redis = [k \in Keys |-> NoEntity]
  /\ db = [k \in Keys |-> NoEntity]
  /\ calls = [c \in Calls |-> IdleCall]
  /\ stoppedAdds = {}
  /\ bloomFilterInitialized = FALSE
  /\ PoolIdle

FilterStateNext ==
  \/ \E e \in Elements : FilterAdd(e)
  \/ FilterInitXXHash
  \/ FilterExport
  \/ \E state \in {held} \cup CraftedStates : FilterImport(state)
  \/ \E i \in WriteIndices, v \in {0, 1} : FilterCallerWrites(i, v)

SpecFilterState == FilterStateInit /\ [][FilterStateNext]_vars

(***************************************************************************)
(* C1: no false negatives: every has(e) that follows an add(e) on the same *)
(* filter returns true, whatever add, has, clearCache and cache evictions  *)
(* happened and whenever the fast hasher finished initialising.            *)
(***************************************************************************)
NoFalseNegative ==
  (lastOp.op = "has" /\ lastOp.wasAdded) => lastOp.result = TRUE

(***************************************************************************)
(* UsernameLookupService, the AbstractMultiLayerLookupService over a       *)
(* BloomFilter, a redis client and a user repository.  One action per      *)
(* await: a call runs from one await to the next without interleaving.     *)
(* A request to redis or to the repository takes effect when its reply is  *)
(* delivered; it may instead fail, which rejects the awaited promise.      *)
(***************************************************************************)
Layer == "UsernameLookupService"
\* the same service under callers that call add at the same time: every
\* add starts before any of them has ended
LayerAdds == "UsernameLookupService.add"
LayerServices == {Layer, LayerAdds}
\* add calls in flight at the same time under LayerAdds
NumAdds == 2
AddCalls == 1..NumAdds

\* Mutants of Layer_add_afterExists: add writes whatever exists(key) returned;
\* add starts with the cache write and never writes the store.
Layer_add_afterExists_noCheck (found) == "addToStore"
Layer_add_afterExists_cacheFirst (found) == IF found THEN "AlreadyExists" ELSE "addToCache"

\* AbstractMultiLayerLookupService.add: what follows the awaited exists(key).
Layer_add_afterExists (found) == IF found THEN "AlreadyExists" ELSE "addToStore"

\* AbstractMultiLayerLookupService.add: the write that follows a completed one.
Layer_add_afterWrite (pc) ==
  CASE pc = "addToStore" -> "addToCache"
    [] pc = "addToCache" -> "addToBloomFilter"
    [] pc = "addToBloomFilter" -> "done"

\* exists/get: what follows a filter that answered absent.
Layer_afterBloomAbsent (op) == IF op = "add" THEN Layer_add_afterExists(FALSE) ELSE "done"

\* The call after the tiered existence check has ended with `found`
\* (entity is what get returns).
Layer_checked (call, found, entity) ==
  CASE call.op = "exists" ->
         [call EXCEPT !.pc = "done", !.result = Returned(found, NoEntity, "")]
    [] call.op = "get" ->
         [call EXCEPT !.pc = "done", !.result = Returned(found, entity, "")]
    [] call.op = "add" ->
         IF Layer_add_afterExists(found) = "AlreadyExists"
           THEN [call EXCEPT !.pc = "done", !.result = Thrown("AlreadyExists")]
           ELSE [call EXCEPT !.pc = Layer_add_afterExists(found)]

\* exists/get/add up to the first await: existsInBloomFilter runs has(key);
\* on "maybe present" redisClient.get is issued.
Layer_Start (c, op, key) ==
  LET h == BloomFilter_has(bloomFilter, key)
      call == [IdleCall EXCEPT !.op = op, !.key = key,
                               !.entity = IF op = "add" THEN EntityOfCall(c) ELSE NoEntity,
                               !.queried = <<"filter">>,
                               !.answers.filter = IF h.result THEN "present" ELSE "absent",
                               !.afterStoppedAdd = key \in stoppedAdds]
  IN
  /\ service \in LayerServices
  /\ calls[c].pc \in Terminal
  /\ service = LayerAdds => op = "add" /\ \A d \in AddCalls : calls[d].pc # "done"
  /\ bloomFilter' = h.filter
  /\ calls' = [calls EXCEPT ![c] =
       IF h.result
         THEN [call EXCEPT !.pc = "getFromCache", !.queried = <<"filter", "cache">>]
         ELSE IF Layer_afterBloomAbsent(op) = "done"
                THEN Layer_checked(call, FALSE, NoEntity)
                ELSE [call EXCEPT !.pc = Layer_afterBloomAbsent(op)]]
  /\ stoppedAdds' = IF op = "add" THEN stoppedAdds \ {key} ELSE stoppedAdds
  /\ UNCHANGED <<poolVars, held, added, lastOp, service, redis, db, bloomFilterInitialized>>

\* The reply of redisClient.get in getFromCache.
Layer_CacheReply (c, ok) ==
  LET call == calls[c]
      userData == redis[call.key]
  IN
  /\ service \in LayerServices
  /\ call.pc = "getFromCache"
  /\ calls' = [calls EXCEPT ![c] =
       IF ~ok
         THEN [call EXCEPT !.pc = "done", !.answers.cache = "error",
                           !.result = Thrown("CacheError")]
         ELSE IF userData # NoEntity
           THEN Layer_checked([call EXCEPT !.answers.cache = "hit"], TRUE, JSONparse(userData))
           ELSE [call EXCEPT !.pc = "store", !.answers.cache = "miss",
                             !.queried = Append(call.queried, "store")]]
  /\ UNCHANGED <<poolVars, held, bloomFilter, added, lastOp, service, redis, db, stoppedAdds, bloomFilterInitialized>>

\* The reply of existsByUsername (exists, add) or findByUsername (get).
Layer_StoreReply (c, ok) ==
  LET call == calls[c]
      entity == db[call.key]
  IN
  /\ service \in LayerServices
  /\ call.pc = "store"
  /\ calls' = [calls EXCEPT ![c] =
       IF ~ok
         THEN [call EXCEPT !.pc = "done", !.answers.store = "error",
                           !.result = Thrown("StoreError")]
         ELSE IF entity = NoEntity
           THEN Layer_checked([call EXCEPT !.answers.store = "miss"], FALSE, NoEntity)
           ELSE IF call.op = "get"
             THEN [call EXCEPT !.pc = "getAddToCache", !.answers.store = "hit",
                               !.entity = entity]
             ELSE Layer_checked([call EXCEPT !.answers.store = "hit"], TRUE, entity)]
  /\ UNCHANGED <<poolVars, held, bloomFilter, added, lastOp, service, redis, db, stoppedAdds, bloomFilterInitialized>>

\* get: the reply of the awaited addToCache after a store hit.
Layer_GetAddToCacheReply (c, ok) ==
  LET call == calls[c] IN
  /\ service = Layer
  /\ call.pc = "getAddToCache"
  /\ redis' = IF ok THEN [redis EXCEPT ![call.key] = JSONstringify(call.entity)] ELSE redis
  /\ calls' = [calls EXCEPT ![c] =
       IF ok
         THEN [call EXCEPT !.pc = "done", !.writes = Append(call.writes, "cache"),
                           !.result = Returned(TRUE, call.entity, "")]
         ELSE [call EXCEPT !.pc = "done", !.failedWrite = "cache",
                           !.result = Thrown("CacheError")]]
  /\ stoppedAdds' = IF ok THEN stoppedAdds \ {call.key} ELSE stoppedAdds
  /\ UNCHANGED <<poolVars, held, bloomFilter, added, lastOp, service, db, bloomFilterInitialized>>

\* add: the reply of userRepository.save in addToStore.
Layer_AddToStoreReply (c, ok) ==
  LET call == calls[c] IN
  /\ service \in LayerServices
  /\ call.pc = "addToStore"
  /\ db' = IF ok THEN [db EXCEPT ![call.key] = call.entity] ELSE db
  /\ calls' = [calls EXCEPT ![c] =
       IF ok
         THEN [call EXCEPT !.pc = Layer_add_afterWrite("addToStore"),
                           !.writes = Append(call.writes, "store")]
         ELSE [call EXCEPT !.pc = "done", !.failedWrite = "store",
                           !.result = Thrown("StoreError")]]
  /\ UNCHANGED <<poolVars, held, bloomFilter, added, lastOp, service, redis, stoppedAdds, bloomFilterInitialized>>

\* add: the reply of redisClient.set in addToCache.
Layer_AddToCacheReply (c, ok) ==
  LET call == calls[c] IN
  /\ service \in LayerServices
  /\ call.pc = "addToCache"
  /\ redis' = IF ok THEN [redis EXCEPT ![call.key] = JSONstringify(call.entity)] ELSE redis
  /\ calls' = [calls EXCEPT ![c] =
       IF ok
         THEN [call EXCEPT !.pc = Layer_add_afterWrite("addToCache"),
                           !.writes = Append(call.writes, "cache")]
         ELSE [call EXCEPT !.pc = "done", !.failedWrite = "cache",
                           !.result = Thrown("CacheError")]]
  /\ UNCHANGED <<poolVars, held, bloomFilter, added, lastOp, service, db, stoppedAdds, bloomFilterInitialized>>

\* add: addToBloomFilter runs bloomFilter.add(key), and add returns.
Layer_AddToBloomFilter (c) ==
  LET call == calls[c]
      r == BloomFilter_add(bloomFilter, call.key)
  IN
  /\ service \in LayerServices
  /\ call.pc = "addToBloomFilter"
  /\ bloomFilter' = r.filter
  /\ calls' = [calls EXCEPT ![c] =
       [call EXCEPT !.pc = Layer_add_afterWrite("addToBloomFilter"),
                    !.writes = Append(call.writes, "filter"),
                    !.result = Returned(FALSE, NoEntity, "")]]
  /\ UNCHANGED <<poolVars, held, added, lastOp, service, redis, db, stoppedAdds, bloomFilterInitialized>>

\* The process stops (a crash) while calls are in flight and starts again:
\* the calls never resume; redis and the store keep what they hold; the
\* filter passed to the new service instance is either a new BloomFilter or
\* one that holds the bits the old one held.
Layer_Crash (keepBits) ==
  /\ service = Layer
  /\ \E c \in Calls : calls[c].pc \notin Terminal
  /\ calls' = [c \in Calls |->
       IF calls[c].pc \in Terminal THEN calls[c] ELSE [calls[c] EXCEPT !.pc = "stopped"]]
  /\ stoppedAdds' = stoppedAdds \cup
       {calls[c].key : c \in {x \in Calls : calls[x].op = "add" /\ calls[x].pc = "addToCache"}}
  /\ bloomFilter' =
       IF keepBits
         THEN [BloomFilter_new(bloomFilter.size, bloomFilter.numberOfHashFunctions)
                 EXCEPT !.bitArray = bloomFilter.bitArray]
         ELSE BloomFilter_new(bloomFilter.size, bloomFilter.numberOfHashFunctions)
  /\ UNCHANGED <<poolVars, held, added, lastOp, service, redis, db, bloomFilterInitialized>>

\* The constructor's initXXHash completes on the service's filter.
Layer_InitXXHash ==
  /\ service = Layer
  /\ ~bloomFilter.xxHasher
  /\ bloomFilter' = initXXHash(bloomFilter)
  /\ UNCHANGED <<poolVars, held, added, lastOp, tierVars>>

\* A cache entry reaches its time to live ("EX", CACHE_TTL) and is dropped.
Expire (k) ==
  /\ service # "BloomFilter"
  /\ redis[k] # NoEntity
  /\ redis' = [redis EXCEPT ![k] = NoEntity]
  /\ UNCHANGED <<poolVars, held, bloomFilter, added, lastOp, service, db, calls, stoppedAdds, bloomFilterInitialized>>

LayerNext ==
  \/ \E c \in Calls, op \in {"exists", "get", "add"}, k \in Keys : Layer_Start(c, op, k)
  \/ \E c \in Calls, ok \in BOOLEAN : Layer_CacheReply(c, ok)
  \/ \E c \in Calls, ok \in BOOLEAN : Layer_StoreReply(c, ok)
  \/ \E c \in Calls, ok \in BOOLEAN : Layer_GetAddToCacheReply(c, ok)
  \/ \E c \in Calls, ok \in BOOLEAN : Layer_AddToStoreReply(c, ok)
  \/ \E c \in Calls, ok \in BOOLEAN : Layer_AddToCacheReply(c, ok)
  \/ \E c \in Calls : Layer_AddToBloomFilter(c)
  \/ \E keepBits \in BOOLEAN : Layer_Crash(keepBits)
  \/ Layer_InitXXHash
  \/ \E k \in Keys : Expire(k)

LayerInit ==
  /\ bloomFilter = BloomFilter_new(FilterSize, HashCount)
  /\ added = {}
  /\ lastOp = NoOp
  /\ held = NoState
  /\ service = Layer
  /\ redis = [k \in Keys |-> NoEntity]
  /\ db = [k \in Keys |-> NoEntity]
  /\ calls = [c \in Calls |-> IdleCall]
  /\ stoppedAdds = {}
  /\ bloomFilterInitialized = FALSE
  /\ PoolIdle

SpecLayer == LayerInit /\ [][LayerNext]_vars

(***************************************************************************)
(* EntityLookupService.exists.  The filter tier is an operation assigned   *)
(* to the worker pool: its reply is the answer of the filter of whichever  *)
(* unit served it, or an error (worker error, pool refusal, timeout).      *)
(* updateCaches is started without await on a store hit and runs on behind *)
(* the call (bg).                                                          *)
(***************************************************************************)
Entity == "EntityLookupService"

\* Mutant of Entity_firstTier: skipBloomFilter is not honoured.
Entity_firstTier_ignoresSkip (options, initialized) ==
  IF initialized THEN "filter"
  ELSE IF ~options.skipRedisCache THEN "cache"
  ELSE "store"

\* the tier whose query exists issues first
Entity_firstTier (options, initialized) ==
  IF ~options.skipBloomFilter /\ initialized THEN "filter"
  ELSE IF ~options.skipRedisCache THEN "cache"
  ELSE "store"

\* Mutant of Entity_afterFilter: "absent" does not end the call.
Entity_afterFilter_noShortCircuit (options, answer) ==
  IF ~options.skipRedisCache THEN "cache" ELSE "store"

\* after the reply of assignOperation("checkExists"): "absent" returns, "present"
\* and "error" continue with the next tier
Entity_afterFilter (options, answer) ==
  IF answer = "absent" THEN "done"
  ELSE IF ~options.skipRedisCache THEN "cache"
  ELSE "store"

\* Mutant of Entity_afterCache: forceDatabaseCheck is not honoured.
Entity_afterCache_ignoresForce (options, answer) ==
  IF answer = "hit" \/ answer = "miss" THEN "done" ELSE "store"

\* after the reply of entityLookupServiceRepository.get
Entity_afterCache (options, answer) ==
  IF answer = "hit" THEN "done"
  ELSE IF answer = "miss" /\ ~options.forceDatabaseCheck THEN "done"
  ELSE "store"

\* Mutant of Entity_afterStoreHit: exists awaits updateCaches before it returns.
Entity_afterStoreHit_awaits (options) ==
  IF options.updateCachesIfFound
    THEN [pc |-> "awaitUpdateCaches", bg |-> "set"]
    ELSE [pc |-> "done", bg |-> "none"]

\* after a store hit: whether updateCaches is started, and where exists goes
Entity_afterStoreHit (options) ==
  [pc |-> "done", bg |-> IF options.updateCachesIfFound THEN "set" ELSE "none"]

\* Mutant of Entity_sourceOf: every result is labelled with the store.
Entity_sourceOf_database (tier) == "database"

\* the source field of the ILookupResult a tier's answer produces
Entity_sourceOf (tier) ==
  CASE tier = "filter" -> "bloomfilter"
    [] tier = "cache" -> "redis"
    [] tier = "store" -> "database"

\* the call moved on to tier `next`, whose query is issued
Entity_goto (call, next) ==
  [call EXCEPT !.pc = next, !.queried = Append(call.queried, next)]

Entity_Start (c, key, options) ==
  /\ service = Entity
  /\ calls[c].pc \in Terminal
  /\ calls[c].bg \notin {"set", "add"}
  /\ calls' = [calls EXCEPT ![c] =
       Entity_goto([IdleCall EXCEPT !.op = "exists", !.key = key, !.options = options],
                   Entity_firstTier(options, bloomFilterInitialized))]
  /\ UNCHANGED <<poolVars, held, bloomFilter, added, lastOp, service, redis, db, stoppedAdds,
                 bloomFilterInitialized>>

\* The reply (or failure, or timeout) of the checkExists operation.
Entity_FilterReply (c, answer) ==
  LET call == [calls[c] EXCEPT !.answers.filter = answer]
      next == Entity_afterFilter(call.options, answer)
  IN
  /\ service = Entity
  /\ calls[c].pc = "filter"
  /\ calls' = [calls EXCEPT ![c] =
       IF next = "done"
         THEN [call EXCEPT !.pc = "done", !.result = Returned(FALSE, NoEntity, Entity_sourceOf("filter"))]
         ELSE Entity_goto(call, next)]
  /\ UNCHANGED <<poolVars, held, bloomFilter, added, lastOp, service, redis, db, stoppedAdds,
                 bloomFilterInitialized>>

\* The reply of the cache get; ok = FALSE is a rejected get or a cached text
\* that JSON.parse refuses.
Entity_CacheReply (c, ok) ==
  LET cachedData == redis[calls[c].key]
      answer == IF ~ok THEN "error" ELSE IF cachedData # NoEntity THEN "hit" ELSE "miss"
      call == [calls[c] EXCEPT !.answers.cache = answer]
      next == Entity_afterCache(call.options, answer)
  IN
  /\ service = Entity
  /\ calls[c].pc = "cache"
  /\ calls' = [calls EXCEPT ![c] =
       IF next = "done"
         THEN [call EXCEPT !.pc = "done",
                 !.result = IF answer = "hit"
                              THEN Returned(TRUE, JSONparse(cachedData), Entity_sourceOf("cache"))
                              ELSE Returned(FALSE, NoEntity, Entity_sourceOf("cache"))]
         ELSE Entity_goto(call, next)]
  /\ UNCHANGED <<poolVars, held, bloomFilter, added, lastOp, service, redis, db, stoppedAdds,
                 bloomFilterInitialized>>

\* The reply of fetchStrategy.getByIdentifier; a failure leaves exists through
\* the outer catch as an AppError INTERNAL_SERVER_ERROR.
Entity_StoreReply (c, ok) ==
  LET entity == db[calls[c].key]
      answer == IF ~ok THEN "error" ELSE IF entity # NoEntity THEN "hit" ELSE "miss"
      call == [calls[c] EXCEPT !.answers.store = answer]
      hit == Entity_afterStoreHit(call.options)
  IN
  /\ service = Entity
  /\ calls[c].pc = "store"
  /\ calls' = [calls EXCEPT ![c] =
       CASE answer = "error" ->
              [call EXCEPT !.pc = "done", !.result = Thrown("INTERNAL_SERVER_ERROR")]
         [] answer = "miss" ->
              [call EXCEPT !.pc = "done", !.result = Returned(FALSE, NoEntity, Entity_sourceOf("store"))]
         [] answer = "hit" ->
              [call EXCEPT !.pc = hit.pc, !.bg = hit.bg, !.entity = entity,
                           !.result = Returned(TRUE, entity, Entity_sourceOf("store"))]]
  /\ UNCHANGED <<poolVars, held, bloomFilter, added, lastOp, service, redis, db, stoppedAdds,
                 bloomFilterInitialized>>

\* updateCaches: the reply of the cache set; on success the filter add is
\* assigned when the filter is initialised; a failure is caught and logged.
Entity_UpdateCachesSetReply (c, ok) ==
  LET call == calls[c] IN
  /\ service = Entity
  /\ call.bg = "set"
  /\ redis' = IF ok THEN [redis EXCEPT ![call.key] = JSONstringify(call.entity)] ELSE redis
  /\ calls' = [calls EXCEPT ![c] =
       IF ok
         THEN [call EXCEPT !.writes = Append(call.writes, "cache"),
                           !.bg = IF bloomFilterInitialized THEN "add" ELSE "finished"]
         ELSE [call EXCEPT !.bg = "failed", !.failedWrite = "cache"]]
  /\ UNCHANGED <<poolVars, held, bloomFilter, added, lastOp, service, db, stoppedAdds, bloomFilterInitialized>>

\* updateCaches: the reply of assignOperation("add").
Entity_UpdateCachesAddReply (c, ok) ==
  LET call == calls[c] IN
  /\ service = Entity
  /\ call.bg = "add"
  /\ calls' = [calls EXCEPT ![c] =
       IF ok
         THEN [call EXCEPT !.writes = Append(call.writes, "filter"), !.bg = "finished"]
         ELSE [call EXCEPT !.bg = "failed", !.failedWrite = "filter"]]
  /\ UNCHANGED <<poolVars, held, bloomFilter, added, lastOp, service, redis, db, stoppedAdds,
                 bloomFilterInitialized>>

\* initialize(), started by the constructor, succeeded.
Entity_Initialized ==
  /\ service = Entity
  /\ ~bloomFilterInitialized
  /\ bloomFilterInitialized' = TRUE
  /\ UNCHANGED <<poolVars, held, bloomFilter, added, lastOp, service, redis, db, calls, stoppedAdds>>

EntityNext ==
  \/ \E c \in Calls, k \in Keys, o \in AllOptions : Entity_Start(c, k, o)
  \/ \E c \in Calls, a \in {"present", "absent", "error"} : Entity_FilterReply(c, a)
  \/ \E c \in Calls, ok \in BOOLEAN : Entity_CacheReply(c, ok)
  \/ \E c \in Calls, ok \in BOOLEAN : Entity_StoreReply(c, ok)
  \/ \E c \in Calls, ok \in BOOLEAN : Entity_UpdateCachesSetReply(c, ok)
  \/ \E c \in Calls, ok \in BOOLEAN : Entity_UpdateCachesAddReply(c, ok)
  \/ Entity_Initialized
  \/ \E k \in Keys : Expire(k)

\* The store holds any set of the keys; the cache starts empty.
EntityInit ==
  /\ bloomFilter = BloomFilter_new(FilterSize, HashCount)
  /\ added = {}
  /\ lastOp = NoOp
  /\ held = NoState
  /\ service = Entity
  /\ redis = [k \in Keys |-> NoEntity]
  /\ db \in [Keys -> {NoEntity} \cup {EntityOfKey(k) : k \in Keys}]
  /\ \A k \in Keys : db[k] \in {NoEntity, EntityOfKey(k)}
  /\ calls = [c \in Calls |-> IdleCall]
  /\ stoppedAdds = {}
  /\ bloomFilterInitialized = FALSE
  /\ PoolIdle

(***************************************************************************)
(* Both lookup services: a run is a run of one of them.                    *)
(***************************************************************************)
SpecTiers == (LayerInit \/ EntityInit) /\ [][LayerNext \/ EntityNext]_vars

(***************************************************************************)
(* ThreadsManager and the worker script.  The main thread runs one task at *)
(* a time and drains its microtasks before the next task: an action that   *)
(* is a task of the main thread (a timer, a message from a worker, the     *)
(* completion of file I/O) waits while the continuation of a call is a     *)
(* pending microtask.  A call of assignOperation can start at any time, in *)
(* the same tick as another one.  Worker threads run in parallel.          *)
(* Indices are counted from 1 here and from 0 in the source.               *)
(***************************************************************************)
Pool == "ThreadsManager"
\* the pool with its checkpoint operations, under one caller of
\* assignOperation that stops short of the budget of a thread, so that
\* recycleThread does not start
Checkpoint == "ThreadsManager.checkpoint"
\* the pool as the filter of the lookup service: callers add a key and,
\* once an add was acknowledged, ask whether the key exists
PoolFilter == "ThreadsManager.filter"
\* and the pool as EntityLookupService owns it, from its constructor to the
\* SIGINT or SIGTERM of the process
Shutdown == "EntityLookupService.shutdown"
PoolServices == {Pool, Checkpoint, PoolFilter, Shutdown}

\* a continuation of assignOperation is queued as a microtask: it runs
\* before the next timer, I/O or message event of the main thread
MicrotasksPending == \E c \in Ops : ops[c].pc \in {"found", "created"}

\* Array.prototype.indexOf, 0 when absent
indexOf (seq, x) ==
  IF \E i \in 1..Len(seq) : seq[i] = x
    THEN CHOOSE i \in 1..Len(seq) : seq[i] = x /\ \A j \in 1..(i - 1) : seq[j] # x
    ELSE 0

\* Mutant of removeThread: nothing is removed.
removeThread_keeps (seq, index) == seq

\* removeThread, on one of the two arrays
removeThread (seq, index) ==
  IF index < 1 \/ index > Len(seq) THEN seq
  ELSE [i \in 1..(Len(seq) - 1) |-> IF i < index THEN seq[i] ELSE seq[i + 1]]

\* findAvailableThread: the index of the first thread with capacity; 0 when
\* there is none and createThread is called
findAvailableThread (loads) ==
  IF \E i \in 1..Len(loads) : loads[i] < operationsPerThread
    THEN CHOOSE i \in 1..Len(loads) :
           /\ loads[i] < operationsPerThread
           /\ \A j \in 1..(i - 1) : loads[j] >= operationsPerThread
    ELSE 0

\* Mutant of rejectsNewOperations: the draining flag is not looked at.
rejectsNewOperations_never (shuttingDown) == FALSE

\* the guard at the head of assignOperation
rejectsNewOperations (shuttingDown) == shuttingDown

\* Mutant of Settle: the last settlement wins.
Settle_last (result, outcome) == outcome

\* Promise.race and the promise of the operation settle once: a later
\* resolve or reject is ignored
Settle (result, outcome) == IF result.kind = "pending" THEN outcome ELSE result

\* Mutant of Matches: a handler takes every response of its worker.
Matches_any (response, call) == TRUE

\* the test of a call's message handler
Matches (response, call) == response.operationId = call.operationId

\* the worker thread the next `new Worker` creates
NextWorker == CHOOSE w \in WorkerIds : workers[w].status = "none" /\
                 \A v \in WorkerIds : v < w => workers[v].status # "none"
CanCreateWorker == \E w \in WorkerIds : workers[w].status = "none"
NewWorker == [NoWorker EXCEPT !.status = "running"]

\* operation ids dispatched to a worker that it has not answered
Unanswered (wk) ==
  ( {wk.inbox[i].operationId : i \in 1..Len(wk.inbox)}
    \cup {wk.suspended[i].message.operationId : i \in 1..Len(wk.suspended)} ) \ {0}

(***************************************************************************)
(* The worker script: the handler of one message.  It runs to its end      *)
(* unless it awaits file I/O, where it is suspended and the thread is free *)
(* to start the handler of the next message.                               *)
(***************************************************************************)
\* Mutant of StateFileCall: the state file methods exist and do file I/O.
StateFileCall_pending (method) == "pending"

\* bloomFilter.loadBloomFilterState / saveBloomFilterState: BloomFilter
\* defines neither method, the call throws a TypeError at once
StateFileCall (method) == "TypeError"

NoResponse == Response(0, "none", "")
Ran (wk, response, at) == [worker |-> wk, response |-> response, at |-> at]

\* the switch over message.action, and the response posted after it
RunSwitch (wk, m) ==
  CASE m.action = "initialize" ->
         \* initializeFilter(payload): a new filter; the failed load is caught,
         \* the catch block calls the undeclared logger, initializeFilter
         \* returns success false
         LET wk1 == [wk EXCEPT !.bloomFilter = BloomFilter_new(FilterSize, HashCount)] IN
         IF StateFileCall("loadBloomFilterState") = "pending"
           THEN Ran(wk1, NoResponse, "initialize")
           ELSE Ran([wk1 EXCEPT !.initialized = FALSE],
                    Response(m.operationId, "data", "success=false"), "")
    [] m.action = "checkExists" ->
         LET r == BloomFilter_has(wk.bloomFilter, m.payload) IN
         Ran([wk EXCEPT !.bloomFilter = r.filter],
             Response(m.operationId, "data", IF r.result THEN "exists=true" ELSE "exists=false"),
             "")
    [] m.action = "add" ->
         LET r == BloomFilter_add(wk.bloomFilter, m.payload) IN
         Ran([wk EXCEPT !.bloomFilter = r.filter],
             Response(m.operationId, "data", IF r.result THEN "added=true" ELSE "added=false"),
             "")
    [] m.action = "save" \/ (m.action = "shutdown" /\ wk.bloomFilter # NoFilter) ->
         IF StateFileCall("saveBloomFilterState") = "pending"
           THEN Ran(wk, NoResponse, "save")
           ELSE Ran(wk, Response(m.operationId, "error", "TypeError"), "")
    [] m.action = "shutdown" /\ wk.bloomFilter = NoFilter ->
         Ran(wk, Response(m.operationId, "data", "success=true"), "")
    [] OTHER ->
         Ran(wk, Response(m.operationId, "error", "Unknown action"), "")

\* the handler from its first line: the filter is initialised first when
\* the message is not initialize and the worker has no filter yet
RunHandler (wk, m) ==
  IF m.action # "initialize" /\ ~wk.initialized /\ wk.bloomFilter = NoFilter
    THEN LET wk1 == [wk EXCEPT !.bloomFilter = BloomFilter_new(FilterSize, HashCount)] IN
         IF StateFileCall("loadBloomFilterState") = "pending"
           THEN Ran(wk1, NoResponse, "autoinit")
           ELSE RunSwitch([wk1 EXCEPT !.initialized = TRUE], m)
    ELSE RunSwitch(wk, m)

\* a suspended handler goes on after its file I/O
ResumeHandler (wk, h) ==
  CASE h.at = "autoinit" -> RunSwitch([wk EXCEPT !.initialized = TRUE], h.message)
    [] h.at = "initialize" ->
         Ran([wk EXCEPT !.initialized = TRUE],
             Response(h.message.operationId, "data", "success=true"), "")
    [] h.at = "save" ->
         Ran(wk, Response(h.message.operationId, "data", "success=true"), "")

\* postMessage of a response; a response without operation id matches no
\* handler of the main thread (the handler of getThreadState wants
\* msg.threadId === index, and a thread id exceeds every index its worker
\* can have) and is left out
Post (wk, response) ==
  IF response.operationId = 0 THEN wk
  ELSE [wk EXCEPT !.outbox = Append(wk.outbox, response)]

\* The worker thread w takes a step: with i = 0 the 'message' event of the
\* head of its inbox starts a handler, whether or not an earlier handler is
\* suspended; with i > 0 the i-th suspended handler goes on.
Worker_Handle (w, i) ==
  LET wk == workers[w]
      fresh == i = 0
      m == IF fresh THEN Head(wk.inbox) ELSE wk.suspended[i].message
      others == IF fresh THEN wk.suspended
                ELSE SubSeq(wk.suspended, 1, i - 1) \o SubSeq(wk.suspended, i + 1, Len(wk.suspended))
      wk0 == IF fresh
               THEN [wk EXCEPT !.inbox = Tail(wk.inbox),
                               !.overlapped = wk.overlapped \/ wk.suspended # <<>>]
               ELSE [wk EXCEPT !.suspended = others]
      ran == IF fresh THEN RunHandler(wk0, m) ELSE ResumeHandler(wk0, wk.suspended[i])
      wk1 == IF ran.at # ""
               THEN [ran.worker EXCEPT
                       !.suspended = Append(others, [message |-> m, at |-> ran.at])]
               ELSE Post(ran.worker, ran.response)
  IN
  /\ service \in PoolServices
  /\ wk.status = "running"
  /\ IF fresh THEN wk.inbox # <<>> ELSE i \in 1..Len(wk.suspended)
  /\ workers' = [workers EXCEPT ![w] = wk1]
  /\ UNCHANGED <<service, poolOptions, stateFile, autoSaveTimer, checkpointVars, lookupVars, threads, threadWorkLoads, operationCounter,
                 isShuttingDown, ops, recycles, terminateAll, issued>>

(***************************************************************************)
(* assignOperation.  The worker file is taken to exist: fileSystem.exists  *)
(* answers true.                                                           *)
(***************************************************************************)
\* calls that will take an operation id
Undispatched == {c \in Ops : ops[c].pc \in {"creating", "found", "created"}}

\* the slot of a call can hold a new call: the old call is settled, its
\* handler and its timer are gone, its recycleThread has ended
SlotFree (c) ==
  /\ ops[c].pc \in {"idle", "done"}
  /\ ~ops[c].timer
  /\ ops[c].listening =>
       /\ workers[ops[c].worker].status = "exited"
       /\ \A i \in 1..Len(workers[ops[c].worker].outbox) :
            workers[ops[c].worker].outbox[i].operationId # ops[c].operationId
  /\ recycles[c].pc \in {"none", "done"}

\* assignOperation up to its first await: the draining guard,
\* findAvailableThread and, when no thread has capacity, createThread up to
\* its await of fileSystem.exists.  The call takes the first free slot.
Pool_Assign (c, action, timeout) ==
  LET idx == findAvailableThread(threadWorkLoads)
      call == [IdleOp EXCEPT !.action = action, !.timeout = timeout]
  IN
  /\ service \in PoolServices
  /\ service = Checkpoint =>
       c = 1 /\ action = "add" /\ ~timeout /\ issued + 1 < operationsPerThread
  /\ service = PoolFilter /\ action = "checkExists" => PoolPayload \in added
  /\ service = Shutdown =>
       IF action = "initialize"
         THEN issued = 0 /\ \A d \in Ops : ops[d].pc = "idle"
         ELSE bloomFilterInitialized
  /\ SlotFree(c)
  /\ \A d \in Ops : d < c => ~SlotFree(d)
  /\ \A d \in Ops : ops[d].pc # "created"
  /\ issued + Cardinality(Undispatched) < MaxOperations
  /\ ops' = [ops EXCEPT ![c] =
       IF rejectsNewOperations(isShuttingDown)
         THEN [IdleOp EXCEPT !.pc = "done",
                 !.result = Rejected("Thread manager is shutting down")]
       ELSE IF idx # 0
         THEN [call EXCEPT !.pc = "found", !.threadIdx = idx]
       ELSE IF Len(threads) >= maxThreads
         THEN [IdleOp EXCEPT !.pc = "done",
                 !.result = Rejected("Maximum number of threads reached")]
       ELSE [call EXCEPT !.pc = "creating"]]
  /\ recycles' = [recycles EXCEPT ![c] = NoRecycle]
  /\ UNCHANGED <<service, poolOptions, stateFile, autoSaveTimer, checkpointVars, lookupVars, threads, threadWorkLoads, operationCounter,
                 isShuttingDown, workers, terminateAll, issued>>

\* createThread after fileSystem.exists: the worker is created and pushed
\* and its index is returned.
Pool_CreateDone (c) ==
  /\ service \in PoolServices
  /\ ops[c].pc = "creating"
  /\ ~MicrotasksPending
  /\ CanCreateWorker
  /\ threads' = Append(threads, NextWorker)
  /\ threadWorkLoads' = Append(threadWorkLoads, 0)
  /\ workers' = [workers EXCEPT ![NextWorker] = NewWorker]
  /\ ops' = [ops EXCEPT ![c].pc = "created", ![c].threadIdx = Len(threads) + 1]
  /\ UNCHANGED <<service, poolOptions, stateFile, autoSaveTimer, checkpointVars, lookupVars, operationCounter, isShuttingDown, recycles,
                 terminateAll, issued>>

\* assignOperation after its await of findAvailableThread: the counters,
\* the timer, the message handler and postMessage.  Microtasks run in the
\* order of the calls, which is the order of their slots.
Pool_Dispatch (c) ==
  LET idx == ops[c].threadIdx
      w == threads[idx]
      operationId == issued + 1
  IN
  /\ service \in PoolServices
  /\ ops[c].pc \in {"found", "created"}
  /\ \A d \in Ops : d < c => ops[d].pc \notin {"found", "created"}
  /\ idx \in 1..Len(threads)
  /\ threadWorkLoads' = [threadWorkLoads EXCEPT ![idx] = @ + 1]
  /\ operationCounter' = operationCounter + 1
  /\ issued' = operationId
  /\ ops' = [ops EXCEPT ![c] =
       [@ EXCEPT !.pc = "waiting", !.action = "", !.timeout = FALSE, !.worker = w,
                 !.operationId = operationId, !.listening = TRUE,
                 !.timer = ops[c].timeout]]
  /\ workers' = [workers EXCEPT ![w].inbox =
                   Append(@, Message(ops[c].action, PoolPayload, operationId))]
  /\ UNCHANGED <<service, poolOptions, stateFile, autoSaveTimer, checkpointVars, lookupVars, threads, isShuttingDown, recycles, terminateAll>>

\* The timer of a call fires: the race is rejected, unless already settled.
Pool_Timeout (c) ==
  /\ service \in PoolServices
  /\ ops[c].timer
  /\ ~MicrotasksPending
  /\ ops' = [ops EXCEPT ![c].timer = FALSE, ![c].pc = "done",
                        ![c].result = Settle(@, Rejected("REQUEST_TIMEOUT"))]
  /\ UNCHANGED <<service, poolOptions, stateFile, autoSaveTimer, checkpointVars, lookupVars, threads, threadWorkLoads, operationCounter,
                 isShuttingDown, workers, recycles, terminateAll, issued>>

\* the calls whose message handler, registered on worker w, takes the response
Takers (w, response) ==
  {c \in Ops : ops[c].listening /\ ops[c].worker = w /\ Matches(response, ops[c])}

\* the handler of call c asks for recycleThread(threadIdx)
AsksRecycle (c) ==
  /\ ops[c].threadIdx \in 1..Len(threadWorkLoads)
  /\ threadWorkLoads[ops[c].threadIdx] >= operationsPerThread

\* the response is the result of an add.  History, followed under the
\* filter service only: added then holds the key.
Acknowledges (response) == response.data \in {"added=true", "added=false"}

\* The 'message' event of the oldest response of worker w on the main
\* thread: every handler registered on w sees it; the one it matches is
\* removed, settles its call and, when the workload at the call's index has
\* reached operationsPerThread, starts recycleThread, whose getThreadState
\* posts getState to the thread at that index.
Pool_Receive (w) ==
  LET response == Head(workers[w].outbox)
      takers == Takers(w, response)
      asking == {c \in takers : AsksRecycle(c)}
      outcome == IF response.kind = "error" THEN Rejected("Worker error")
                 ELSE Resolved(response.data)
      getStates (x) == [i \in 1..Cardinality({c \in asking : threads[ops[c].threadIdx] = x})
                          |-> Message("getState", "", 0)]
  IN
  /\ service \in PoolServices
  /\ workers[w].outbox # <<>>
  /\ ~MicrotasksPending
  /\ ops' = [c \in Ops |->
       IF c \in takers
         THEN [ops[c] EXCEPT !.listening = FALSE, !.pc = "done",
                 !.threadIdx = 0, !.worker = 0, !.operationId = 0,
                 !.result = Settle(@, outcome),
                 !.late = ops[c].result.kind # "pending"]
         ELSE ops[c]]
  /\ recycles' = [c \in Ops |->
       IF c \in asking
         THEN [pc |-> "getState", index |-> ops[c].threadIdx, worker |-> 0]
         ELSE recycles[c]]
  /\ workers' = [x \in WorkerIds |->
       LET wk == IF x = w THEN [workers[x] EXCEPT !.outbox = Tail(@)] ELSE workers[x]
       IN [wk EXCEPT !.inbox = @ \o getStates(x)]]
  /\ added' = IF service = PoolFilter /\ takers # {} /\ Acknowledges(response)
                THEN added \cup {PoolPayload} ELSE added
  /\ UNCHANGED <<service, poolOptions, stateFile, autoSaveTimer, checkpointVars, lookupRest, threads, threadWorkLoads, operationCounter,
                 isShuttingDown, terminateAll, issued>>

(***************************************************************************)
(* recycleThread, terminateThread and terminateAll.                        *)
(***************************************************************************)
\* worker.terminate(): the thread stops, what it had not handled is lost
Terminated (wk) ==
  IF wk.status # "running" THEN wk
  ELSE [wk EXCEPT !.status = "exited", !.inbox = <<>>, !.suspended = <<>>]

\* recycleThread after getThreadState gave up (no message of a worker
\* carries a threadId equal to the index): terminateThread checks the
\* index, reads the thread now at that index and posts shutdown to it.
Recycle_GetStateTimeout (c) ==
  LET index == recycles[c].index IN
  /\ service \in PoolServices
  /\ recycles[c].pc = "getState"
  /\ ~MicrotasksPending
  /\ IF index \in 1..Len(threads)
       THEN /\ recycles' = [recycles EXCEPT ![c].pc = "grace", ![c].worker = threads[index]]
            /\ workers' = [workers EXCEPT ![threads[index]].inbox =
                             Append(@, Message("shutdown", "", 0))]
       ELSE /\ recycles' = [recycles EXCEPT ![c].pc = "done"]
            /\ UNCHANGED workers
  /\ UNCHANGED <<service, poolOptions, stateFile, autoSaveTimer, checkpointVars, lookupVars, threads, threadWorkLoads, operationCounter,
                 isShuttingDown, ops, terminateAll, issued>>

\* terminateThread after the 100 ms: worker.terminate(); the 'exit'
\* listener of createThread removes the worker; the finally block removes
\* whatever is at the index then; recycleThread goes on with createThread
\* up to its await.
Recycle_Terminate (c) ==
  LET w == recycles[c].worker
      index == recycles[c].index
      atExit == indexOf(threads, w)
      threads1 == removeThread(threads, atExit)
      loads1 == removeThread(threadWorkLoads, atExit)
      exits == workers[w].status = "running"
      threads2 == removeThread(IF exits THEN threads1 ELSE threads, index)
      loads2 == removeThread(IF exits THEN loads1 ELSE threadWorkLoads, index)
  IN
  /\ service \in PoolServices
  /\ recycles[c].pc = "grace"
  /\ ~MicrotasksPending
  /\ workers' = [workers EXCEPT ![w] = Terminated(@)]
  /\ threads' = threads2
  /\ threadWorkLoads' = loads2
  /\ recycles' = [recycles EXCEPT ![c].pc =
                    IF Len(threads2) >= maxThreads THEN "done" ELSE "creating"]
  /\ UNCHANGED <<service, poolOptions, stateFile, autoSaveTimer, checkpointVars, lookupVars, operationCounter, isShuttingDown, ops,
                 terminateAll, issued>>

\* createThread of recycleThread after fileSystem.exists; the state read
\* from the old worker is null, restoreState is not posted.
Recycle_CreateDone (c) ==
  /\ service \in PoolServices
  /\ recycles[c].pc = "creating"
  /\ ~MicrotasksPending
  /\ CanCreateWorker
  /\ recycles' = [recycles EXCEPT ![c].pc = "done"]
  /\ threads' = Append(threads, NextWorker)
  /\ threadWorkLoads' = Append(threadWorkLoads, 0)
  /\ workers' = [workers EXCEPT ![NextWorker] = NewWorker]
  /\ UNCHANGED <<service, poolOptions, stateFile, autoSaveTimer, checkpointVars, lookupVars, operationCounter, isShuttingDown, ops,
                 terminateAll, issued>>

\* terminateAll up to its await of saveState.  The state file is followed
\* under the checkpoint service only: no other operation of the pool reads
\* it.
Pool_TerminateAll ==
  /\ service \in PoolServices
  /\ terminateAll.pc = "none"
  /\ isShuttingDown' = TRUE
  /\ autoSaveTimer' = FALSE
  /\ terminateAll' = [terminateAll EXCEPT !.pc = "saving",
                        !.state = IF service = Checkpoint
                                    THEN ThreadState(operationCounter, metadata)
                                    ELSE <<>>]
  /\ UNCHANGED <<service, poolOptions, stateFile, checkpointVars, lookupVars, threads,
                 threadWorkLoads, operationCounter, workers, ops, recycles, issued>>

\* The saveState call of terminateAll ends, its directory, codec and file
\* steps done (ok) or one of them failed.  When saveState returned,
\* terminateThread is called for every index of the copy of threads; each
\* reads its thread and posts shutdown before its first await.  Had it
\* thrown, terminateAll would reject there.
TerminateAll_Saved (ok) ==
  /\ service \in PoolServices
  /\ terminateAll.pc = "saving"
  /\ ~MicrotasksPending
  /\ stateFile' = IF service = Checkpoint
                    THEN writeState(stateFile, terminateAll.state,
                                    poolOptions.encryptionPassword, ok)
                    ELSE stateFile
  /\ IF saveState_catch(ok) = "returned"
       THEN /\ terminateAll' = [pc |-> "grace", workers |-> threads,
                               state |-> IF ok THEN <<>> ELSE terminateAll.state]
            /\ workers' = [x \in WorkerIds |->
                 IF \E i \in 1..Len(threads) : threads[i] = x
                   THEN [workers[x] EXCEPT !.inbox = Append(@, Message("shutdown", "", 0))]
                   ELSE workers[x]]
       ELSE /\ terminateAll' = [pc |-> "raised", workers |-> <<>>, state |-> <<>>]
            /\ UNCHANGED workers
  /\ UNCHANGED <<service, poolOptions, autoSaveTimer, checkpointVars, lookupVars, threads,
                 threadWorkLoads, operationCounter, isShuttingDown, ops, recycles, issued>>

\* The 100 ms of every terminateThread have passed: the threads exit and
\* are removed, and terminateAll empties both arrays.
TerminateAll_Terminated ==
  /\ service \in PoolServices
  /\ terminateAll.pc = "grace"
  /\ ~MicrotasksPending
  /\ workers' = [x \in WorkerIds |->
       IF \E i \in 1..Len(terminateAll.workers) : terminateAll.workers[i] = x
         THEN Terminated(workers[x]) ELSE workers[x]]
  /\ threads' = <<>>
  /\ threadWorkLoads' = <<>>
  /\ terminateAll' = [terminateAll EXCEPT !.pc = "done", !.state = <<>>]
  /\ UNCHANGED <<service, poolOptions, stateFile, autoSaveTimer, checkpointVars, lookupVars, operationCounter, isShuttingDown, ops,
                 recycles, issued>>

PoolNext ==
  \/ \E c \in Ops, a \in PoolActions, t \in BOOLEAN : Pool_Assign(c, a, t)
  \/ \E c \in Ops : Pool_CreateDone(c)
  \/ \E c \in Ops : Pool_Dispatch(c)
  \/ \E c \in Ops : Pool_Timeout(c)
  \/ \E w \in WorkerIds : Pool_Receive(w)
  \/ \E w \in WorkerIds, i \in 0..NumOps : Worker_Handle(w, i)
  \/ \E c \in Ops : Recycle_GetStateTimeout(c)
  \/ \E c \in Ops : Recycle_Terminate(c)
  \/ \E c \in Ops : Recycle_CreateDone(c)
  \/ Pool_TerminateAll
  \/ \E ok \in BOOLEAN : TerminateAll_Saved(ok)
  \/ TerminateAll_Terminated

PoolInit ==
  /\ bloomFilter = BloomFilter_new(FilterSize, HashCount)
  /\ added = {}
  /\ lastOp = NoOp
  /\ held = NoState
  /\ service = Pool
  /\ redis = [k \in Keys |-> NoEntity]
  /\ db = [k \in Keys |-> NoEntity]
  /\ calls = [c \in Calls |-> IdleCall]
  /\ stoppedAdds = {}
  /\ bloomFilterInitialized = FALSE
  /\ threads = <<>>
  /\ threadWorkLoads = <<>>
  /\ operationCounter = 0
  /\ isShuttingDown = FALSE
  /\ workers = [w \in WorkerIds |-> NoWorker]
  /\ ops = [c \in Ops |-> IdleOp]
  /\ recycles = [c \in Ops |-> NoRecycle]
  /\ terminateAll = NoTerminateAll
  /\ issued = 0
  /\ poolOptions \in {[maxThreads |-> n, encryptionPassword |-> "p"] :
                        n \in 1..MaxThreadsOption}
  /\ metadata = NoMetadata
  /\ stateFile = NoFile
  /\ saves = [c \in SaveIds |-> NoSave]
  /\ loading = NoLoad
  /\ autoSaveTimer = TRUE

SpecPool == PoolInit /\ [][PoolNext]_vars

(***************************************************************************)
(* The checkpoint operations of ThreadsManager.                            *)
(***************************************************************************)
\* setMetadata(key, value)
Pool_SetMetadata (k, v) ==
  /\ service = Checkpoint
  /\ metadata' = [metadata EXCEPT ![k] = v]
  /\ UNCHANGED <<service, poolOptions, stateFile, autoSaveTimer, saves, loading, lookupVars,
                 threads, threadWorkLoads, operationCounter, isShuttingDown, workers,
                 ops, recycles, terminateAll, issued>>

\* saveState up to its first await, called by a caller or by the interval
\* timer of startAutoSave: the state object is built.
Pool_SaveState (c, trigger) ==
  /\ service = Checkpoint
  /\ saves[c].pc = "none"
  /\ \A d \in SaveIds : d < c => saves[d].pc = "pending"
  /\ trigger = "timer" => autoSaveTimer /\ ~MicrotasksPending
  /\ saves' = [saves EXCEPT ![c] =
       [pc |-> "pending", state |-> ThreadState(operationCounter, metadata)]]
  /\ UNCHANGED <<service, poolOptions, stateFile, autoSaveTimer, metadata, loading,
                 lookupVars, threads, threadWorkLoads, operationCounter, isShuttingDown,
                 workers, ops, recycles, terminateAll, issued>>

\* The saveState call ends, its directory, codec and file steps done (ok)
\* or one of them failed.
SaveState_Done (c, ok) ==
  /\ service = Checkpoint
  /\ saves[c].pc = "pending"
  /\ ~MicrotasksPending
  /\ stateFile' = writeState(stateFile, saves[c].state, poolOptions.encryptionPassword, ok)
  /\ saves' = [saves EXCEPT ![c] =
       IF saveState_catch(ok) = "returned" THEN NoSave
       ELSE [NoSave EXCEPT !.pc = "raised"]]
  /\ UNCHANGED <<service, poolOptions, autoSaveTimer, metadata, loading, lookupVars,
                 threads, threadWorkLoads, operationCounter, isShuttingDown, workers,
                 ops, recycles, terminateAll, issued>>

\* loadState up to its await of Encryption.decrypt: fileSystem.exists and
\* readFile.  A pool loads its state once.
Pool_LoadState ==
  /\ service = Checkpoint
  /\ loading.pc = "none"
  /\ loading' = [pc |-> "read", file |-> stateFile, result |-> "none"]
  /\ UNCHANGED <<service, poolOptions, stateFile, autoSaveTimer, metadata, saves,
                 lookupVars, threads, threadWorkLoads, operationCounter, isShuttingDown,
                 workers, ops, recycles, terminateAll, issued>>

\* The rest of loadState.
LoadState_Done ==
  LET r == loadState(loading.file, poolOptions.encryptionPassword,
                     operationCounter, metadata) IN
  /\ service = Checkpoint
  /\ loading.pc = "read"
  /\ ~MicrotasksPending
  /\ operationCounter' = r.operationCounter
  /\ metadata' = r.metadata
  /\ loading' = [pc |-> "done", file |-> NoFile, result |-> r.result]
  /\ UNCHANGED <<service, poolOptions, stateFile, autoSaveTimer, saves, lookupVars,
                 threads, threadWorkLoads, isShuttingDown, workers, ops, recycles,
                 terminateAll, issued>>

\* The process ends and a new one constructs a ThreadsManager over the
\* same statePath, with an encryption password of its own.  A process that
\* ends during a saveState call leaves what the failure of that call
\* followed by the end of the process leaves.
Pool_Restart (password) ==
  /\ service = Checkpoint
  /\ \A c \in SaveIds : saves[c].pc # "pending"
  /\ terminateAll.pc # "saving"
  /\ threads' = <<>>
  /\ threadWorkLoads' = <<>>
  /\ operationCounter' = 0
  /\ isShuttingDown' = FALSE
  /\ workers' = [w \in WorkerIds |-> NoWorker]
  /\ ops' = [c \in Ops |-> IdleOp]
  /\ recycles' = [c \in Ops |-> NoRecycle]
  /\ terminateAll' = NoTerminateAll
  /\ poolOptions' = [poolOptions EXCEPT !.encryptionPassword = password]
  /\ metadata' = NoMetadata
  /\ saves' = [c \in SaveIds |-> NoSave]
  /\ loading' = NoLoad
  /\ autoSaveTimer' = TRUE
  /\ UNCHANGED <<service, stateFile, issued, lookupVars>>

\* The file at statePath is deleted, damaged, or replaced by a text that is
\* no JSON, encrypted with some password, from outside the pool.
Env_Damage (file) ==
  /\ service = Checkpoint
  /\ stateFile # file
  /\ stateFile' = file
  /\ UNCHANGED <<service, poolOptions, autoSaveTimer, checkpointVars, lookupVars, threads,
                 threadWorkLoads, operationCounter, isShuttingDown, workers, ops,
                 recycles, terminateAll, issued>>

ForeignFiles == {NoFile, DamagedFile, Encryption_encrypt(NotJson, "p", <<>>)}

CheckpointNext ==
  \/ \E c \in Ops, a \in PoolActions : Pool_Assign(c, a, FALSE)
  \/ \E c \in Ops : Pool_CreateDone(c)
  \/ \E c \in Ops : Pool_Dispatch(c)
  \/ \E w \in WorkerIds, i \in 0..NumOps : Worker_Handle(w, i)
  \/ \E w \in WorkerIds : Pool_Receive(w)
  \/ Pool_TerminateAll
  \/ \E ok \in BOOLEAN : TerminateAll_Saved(ok)
  \/ TerminateAll_Terminated
  \/ \E k \in MetaKeys, v \in MetaValues : Pool_SetMetadata(k, v)
  \/ \E c \in SaveIds, trigger \in {"explicit", "timer"} : Pool_SaveState(c, trigger)
  \/ \E c \in SaveIds, ok \in BOOLEAN : SaveState_Done(c, ok)
  \/ Pool_LoadState
  \/ LoadState_Done
  \/ \E password \in Passwords : Pool_Restart(password)
  \/ \E file \in ForeignFiles : Env_Damage(file)

CheckpointInit ==
  /\ bloomFilter = BloomFilter_new(FilterSize, HashCount)
  /\ added = {}
  /\ lastOp = NoOp
  /\ held = NoState
  /\ service = Checkpoint
  /\ redis = [k \in Keys |-> NoEntity]
  /\ db = [k \in Keys |-> NoEntity]
  /\ calls = [c \in Calls |-> IdleCall]
  /\ stoppedAdds = {}
  /\ bloomFilterInitialized = FALSE
  /\ PoolIdle

SpecCheckpoint == CheckpointInit /\ [][CheckpointNext]_vars

(***************************************************************************)
(* Properties of the lookup services.                                      *)
(***************************************************************************)
TierOrder == <<"filter", "cache", "store">>
TierRank (t) == CHOOSE i \in 1..3 : TierOrder[i] = t
IsPrefix (s, t) == Len(s) <= Len(t) /\ \A i \in 1..Len(s) : s[i] = t[i]
Elems (s) == {s[i] : i \in 1..Len(s)}
IsLookup (call) == call.op \in {"exists", "get"}

(***************************************************************************)
(* C2: short-circuit: a lookup whose filter query answered "absent" (so    *)
(* the filter was not skipped and was initialised) has returned            *)
(* exists = false, from source bloomfilter, with no entity, and has        *)
(* queried neither the cache nor the store.                                *)
(***************************************************************************)
ShortCircuit ==
  \A c \in Calls :
    (IsLookup(calls[c]) /\ calls[c].answers.filter = "absent") =>
      /\ calls[c].pc = "done"
      /\ calls[c].result =
           Returned(FALSE, NoEntity, IF service = Entity THEN "bloomfilter" ELSE "")
      /\ calls[c].queried = <<"filter">>
      /\ calls[c].answers.cache = "none" /\ calls[c].answers.store = "none"

ShortCircuitWitness ==
  \E c \in Calls :
    /\ service = Entity /\ calls[c].op = "exists"
    /\ ~calls[c].options.skipBloomFilter /\ bloomFilterInitialized
    /\ calls[c].answers.filter = "absent" /\ calls[c].pc = "done"

(***************************************************************************)
(* C3, as claimed: a finished lookup whose filter did not answer "absent"  *)
(* and whose cache had no entry has queried the store; a cache miss is     *)
(* never the end of the call.                                              *)
(***************************************************************************)
CacheMissGoesToStore ==
  \A c \in Calls :
    (IsLookup(calls[c]) /\ calls[c].pc = "done" /\ calls[c].answers.cache = "miss") =>
      "store" \in Elems(calls[c].queried)

(***************************************************************************)
(* C3, amended: after a cache miss the lookup goes on to the store, and a  *)
(* call that returns returns the store's answer, in the layered service    *)
(* always and in EntityLookupService.exists when forceDatabaseCheck is     *)
(* set; EntityLookupService.exists without forceDatabaseCheck ends on the  *)
(* cache miss with exists = false, source redis, the store not queried.    *)
(***************************************************************************)
CacheMissForcedGoesToStore ==
  \A c \in Calls :
    (IsLookup(calls[c]) /\ calls[c].answers.cache = "miss") =>
      IF service = Entity /\ ~calls[c].options.forceDatabaseCheck
        THEN /\ calls[c].pc = "done"
             /\ calls[c].result = Returned(FALSE, NoEntity, "redis")
             /\ "store" \notin Elems(calls[c].queried)
        ELSE /\ "store" \in Elems(calls[c].queried)
             /\ (calls[c].pc = "done" /\ calls[c].result.kind = "return") =>
                  /\ calls[c].answers.store \in {"hit", "miss"}
                  /\ calls[c].result.exists = (calls[c].answers.store = "hit")
                  /\ calls[c].answers.store = "hit" /\ calls[c].op = "get" =>
                       calls[c].result.entity = db[calls[c].key]
                  /\ calls[c].answers.store = "hit" /\ service = Entity =>
                       /\ calls[c].result.entity = db[calls[c].key]
                       /\ calls[c].result.source = "database"

CacheMissForcedWitness ==
  \E c \in Calls :
    /\ service = Entity /\ calls[c].options.forceDatabaseCheck
    /\ calls[c].answers.cache = "miss" /\ calls[c].answers.store = "hit"
    /\ calls[c].pc = "done"

(***************************************************************************)
(* C4: a finished lookup has raised an error exactly when its store query  *)
(* failed, and then the error is the InternalError; a failed filter or     *)
(* cache query is not raised.                                              *)
(***************************************************************************)
RaisesOnlyOnStoreFailure ==
  \A c \in Calls :
    (IsLookup(calls[c]) /\ calls[c].pc = "done") =>
      /\ (calls[c].result.kind = "throw") <=> (calls[c].answers.store = "error")
      /\ calls[c].result.kind = "throw" => calls[c].result.error = "INTERNAL_SERVER_ERROR"

(***************************************************************************)
(* C5: the tiers a call has queried are an in-order selection of filter,   *)
(* cache, store, each at most once; every tier but the last one queried    *)
(* has answered; a tier the options skip is not queried.                   *)
(***************************************************************************)
TiersInOrder ==
  \A c \in Calls :
    LET q == calls[c].queried IN
    /\ \A i, j \in 1..Len(q) : i < j => TierRank(q[i]) < TierRank(q[j])
    /\ \A i \in 1..(Len(q) - 1) : calls[c].answers[q[i]] # "none"
    /\ calls[c].options.skipBloomFilter => "filter" \notin Elems(q)
    /\ calls[c].options.skipRedisCache => "cache" \notin Elems(q)

TiersInOrderWitness ==
  \E c \in Calls :
    /\ calls[c].queried = <<"filter", "cache", "store">> /\ calls[c].pc = "done"
    /\ calls[c].answers.store = "miss"

(***************************************************************************)
(* C6: an add whose tiered existence check found the key (in the cache or  *)
(* in the store) has failed with AlreadyExists and has written nothing.    *)
(***************************************************************************)
AddExistingFails ==
  \A c \in Calls :
    (calls[c].op = "add" /\ (calls[c].answers.cache = "hit" \/ calls[c].answers.store = "hit")) =>
      /\ calls[c].pc = "done"
      /\ calls[c].result = Thrown("AlreadyExists")
      /\ calls[c].writes = <<>>

AddExistingFailsWitness ==
  \E c \in Calls :
    calls[c].op = "add" /\ calls[c].answers.store = "hit" /\ calls[c].pc = "done"

(***************************************************************************)
(* C7: the writes of an add are a prefix of store, cache, filter: a cache  *)
(* or filter write of an add comes after its completed store write, the    *)
(* store then holds the key, and an add that returned made all three.      *)
(***************************************************************************)
AddWritesInOrder ==
  \A c \in Calls :
    calls[c].op = "add" =>
      /\ IsPrefix(calls[c].writes, <<"store", "cache", "filter">>)
      /\ calls[c].writes # <<>> => db[calls[c].key] # NoEntity
      /\ calls[c].result.kind = "return" => calls[c].writes = <<"store", "cache", "filter">>

AddWritesInOrderWitness ==
  \E c \in Calls :
    /\ calls[c].op = "add" /\ calls[c].result.kind = "return"
    /\ calls[c].writes = <<"store", "cache", "filter">>

(***************************************************************************)
(* C8: a get that starts on a key whose add stopped after its store write  *)
(* and before its cache and filter writes, and none of whose tier requests *)
(* fails, reads the store, returns the stored entity and writes the cache. *)
(***************************************************************************)
GetAfterStoppedAdd ==
  \A c \in Calls :
    ( /\ calls[c].op = "get" /\ calls[c].pc = "done" /\ calls[c].afterStoppedAdd
      /\ calls[c].answers.cache # "error" /\ calls[c].answers.store # "error"
      /\ calls[c].failedWrite = "none" ) =>
      /\ "store" \in Elems(calls[c].queried)
      /\ calls[c].result = Returned(TRUE, db[calls[c].key], "")
      /\ "cache" \in Elems(calls[c].writes)

(***************************************************************************)
(* C9: an add whose cache write failed has not raised the failure to its   *)
(* caller, and the store still holds the entry the add wrote.              *)
(***************************************************************************)
AddWriteFailureNotRaised ==
  \A c \in Calls :
    (calls[c].op = "add" /\ calls[c].pc = "done" /\ calls[c].failedWrite = "cache") =>
      /\ calls[c].result.kind = "return"
      /\ db[calls[c].key] # NoEntity

(***************************************************************************)
(* C10: once the store answered a hit, exists of EntityLookupService has   *)
(* returned exists = true with the entity, source database, whatever the   *)
(* position or outcome of updateCaches (still pending, finished, failed);  *)
(* with updateCachesIfFound = false no updateCaches runs and the call      *)
(* makes no cache write and no filter add.                                 *)
(***************************************************************************)
RepopulationFireAndForget ==
  \A c \in Calls :
    (service = Entity /\ calls[c].answers.store = "hit") =>
      /\ calls[c].pc = "done"
      /\ calls[c].result = Returned(TRUE, db[calls[c].key], "database")
      /\ ~calls[c].options.updateCachesIfFound =>
           calls[c].bg = "none" /\ calls[c].writes = <<>>
      /\ calls[c].options.updateCachesIfFound => calls[c].bg # "none"

RepopulationPendingWitness ==
  \E c \in Calls :
    /\ service = Entity /\ calls[c].answers.store = "hit"
    /\ calls[c].pc = "done" /\ calls[c].bg = "set"
    /\ calls[c].result.kind = "return"

(***************************************************************************)
(* C11: every result exists of EntityLookupService returned: an entity is  *)
(* present only with exists = true and source redis or database; source    *)
(* bloomfilter comes with exists = false and no entity; and source names   *)
(* the last tier the call queried, which answered (it did not fail).       *)
(***************************************************************************)
ResultWellFormed ==
  \A c \in Calls :
    (service = Entity /\ calls[c].pc = "done" /\ calls[c].result.kind = "return") =>
      LET r == calls[c].result
          q == calls[c].queried
          last == q[Len(q)]
      IN
      /\ r.entity # NoEntity => r.exists /\ r.source \in {"redis", "database"}
      /\ r.source = "bloomfilter" => ~r.exists /\ r.entity = NoEntity
      /\ r.exists => r.entity # NoEntity
      /\ q # <<>>
      /\ calls[c].answers[last] \in {"absent", "hit", "miss"}
      /\ last = "filter" => r.source = "bloomfilter"
      /\ last = "cache" => r.source = "redis"
      /\ last = "store" => r.source = "database"

ResultWellFormedWitness ==
  \E c \in Calls :
    /\ service = Entity /\ calls[c].pc = "done"
    /\ calls[c].result.kind = "return" /\ calls[c].result.exists
    /\ calls[c].result.source = "redis" /\ calls[c].result.entity # NoEntity

(***************************************************************************)
(* Properties of the worker pool.                                          *)
(***************************************************************************)
\* C12: in every reachable state the number of live worker threads is at
\* most maxThreads, whatever the interleaving of assignOperation calls,
\* thread creation and recycling.
PoolWithinMaxThreads == Len(threads) <= maxThreads

\* the step dispatches call c
Dispatches (c) == ops[c].pc \in {"found", "created"} /\ ops'[c].pc = "waiting"
\* the step is the call of assignOperation in slot c
Assigns (c) == SlotFree(c) /\ ops'[c] # ops[c] /\ ops'[c].pc \in {"found", "creating", "done"}
\* every thread of the pool has reached operationsPerThread
AllAtCapacity == \A i \in 1..Len(threadWorkLoads) : threadWorkLoads[i] >= operationsPerThread

\* C13: assignOperation dispatches to an existing thread that has spare
\* capacity; when none has, it creates a thread provided fewer than
\* maxThreads exist; it fails, dispatching nothing, exactly when the pool
\* holds maxThreads threads and each has reached operationsPerThread.
AssignsByCapacity ==
  [][\A c \in Ops :
       /\ Dispatches(c) => threadWorkLoads[ops[c].threadIdx] < operationsPerThread
       /\ (Assigns(c) /\ ~isShuttingDown) =>
            /\ ops'[c].pc = "found" <=> ~AllAtCapacity
            /\ ops'[c].pc = "creating" <=> (AllAtCapacity /\ Len(threads) < maxThreads)
            /\ ops'[c].pc = "done" <=> (AllAtCapacity /\ Len(threads) = maxThreads)
            /\ ops'[c].pc = "done" => (workers' = workers /\ threadWorkLoads' = threadWorkLoads)
    ]_vars

\* the step is the timer of call c firing
TimerFires (c) == ops[c].timer /\ ~ops'[c].timer
\* the step hands call c the response that carries its operation id
ResponseTaken (c) == ops[c].listening /\ ~ops'[c].listening /\ ~Assigns(c)

\* C14: an assignOperation call with a timeout settles exactly once: with
\* the response when it is received before the timer fires, with
\* REQUEST_TIMEOUT otherwise; a response received after the timeout is
\* discarded and changes the outcome of no call; the timeout leaves the
\* worker thread alone.
SettlesOnce ==
  [][\A c \in Ops :
       /\ (ops[c].result.kind # "pending" /\ ~Assigns(c)) => ops'[c].result = ops[c].result
       /\ TimerFires(c) =>
            /\ workers' = workers /\ threads' = threads
            /\ ops[c].result.kind = "pending" => ops'[c].result = Rejected("REQUEST_TIMEOUT")
       /\ (ResponseTaken(c) /\ ops[c].result.kind = "pending") =>
            ops'[c].result.kind \in {"return", "throw"} /\ ops'[c].result # Rejected("REQUEST_TIMEOUT")
       /\ (ResponseTaken(c) /\ ops[c].result.kind # "pending") =>
            \A d \in Ops : ops'[d].result = ops[d].result
    ]_vars

\* a call was settled by its timeout and its response arrived afterwards
SettlesOnceWitness ==
  \E c \in Ops : ops[c].late /\ ops[c].result = Rejected("REQUEST_TIMEOUT")

\* C15: a response settles only the call that dispatched the operation id it
\* carries: the outcome of a call changes, other than by its own timer,
\* only in the step that receives the response with the call's own id.
CorrelationIsolation ==
  [][\A c \in Ops :
       (ops'[c].result # ops[c].result /\ ~Assigns(c) /\ ~TimerFires(c)) =>
         /\ ops[c].listening
         /\ workers[ops[c].worker].outbox # <<>>
         /\ Head(workers[ops[c].worker].outbox).operationId = ops[c].operationId
         /\ workers'[ops[c].worker].outbox = Tail(workers[ops[c].worker].outbox)
    ]_vars

\* two calls were dispatched to the only worker; one has received its
\* response, the other is still waiting while its response is the next one
CorrelationIsolationWitness ==
  \E c, d \in Ops :
    /\ c # d
    /\ ops[c].result.kind = "return"
    /\ ops[d].pc = "waiting" /\ ops[d].listening
    /\ issued = 2
    /\ \A x \in WorkerIds : x # ops[d].worker => workers[x].status = "none"
    /\ workers[ops[d].worker].outbox # <<>>
    /\ Head(workers[ops[d].worker].outbox).operationId = ops[d].operationId

\* the operation ids of a sequence of messages or responses, in order
IdsOf (seq) == [i \in 1..Len(seq) |-> seq[i].operationId]
\* the sequence of ids is strictly increasing, ids 0 (none) left aside
Increasing (ids) ==
  \A i, j \in 1..Len(ids) : (i < j /\ ids[i] # 0 /\ ids[j] # 0) => ids[i] < ids[j]

RecycleStep == \E c \in Ops : recycles'[c] # recycles[c] /\ ~Assigns(c)

\* C17: a thread is given at most operationsPerThread operations: once it
\* has had that many, the next operation goes to another, newly created
\* thread; and recycling leaves totalOperations (operationCounter) as it is.
RecycledAtBudget ==
  [][/\ \A i \in 1..Len(threadWorkLoads') : threadWorkLoads'[i] <= operationsPerThread
     /\ RecycleStep => operationCounter' = operationCounter
    ]_vars

\* recycling on its own leaves operationCounter as it is (this part holds)
RecycleKeepsTotal == [][RecycleStep => operationCounter' = operationCounter]_vars

\* the step is worker.terminate() of the terminateThread that the
\* recycleThread of slot c called
RecycleTerminates (c) == recycles[c].pc = "grace" /\ recycles'[c].pc # "grace"

\* C18: recycling never terminates a worker thread while an operation that
\* was dispatched to it has not been answered.
RecycleWaitsForAnswers ==
  [][\A c \in Ops :
       (RecycleTerminates(c) /\ workers[recycles[c].worker].status = "running") =>
         Unanswered(workers[recycles[c].worker]) = {}
    ]_vars

\* C19: among the threads that have spare capacity, assignOperation selects
\* one whose workload is least (not the first one found, not round robin):
\* in every state in which a call can be made and the pool holds no more
\* than maxThreads threads, the thread that findAvailableThread returns is
\* as lightly loaded as any with capacity.
SelectsLeastLoaded ==
  LET idx == findAvailableThread(threadWorkLoads) IN
  (~isShuttingDown /\ ~MicrotasksPending /\ Len(threads) <= maxThreads /\ idx # 0) =>
    \A j \in 1..Len(threadWorkLoads) :
      threadWorkLoads[j] < operationsPerThread =>
        threadWorkLoads[idx] <= threadWorkLoads[j]

\* C20: from the moment terminateAll is called the pool is draining for
\* good, and every new assignOperation call is rejected as shutting down:
\* it creates no thread, posts no message and changes no workload counter.
DrainingRejects ==
  [][/\ isShuttingDown => isShuttingDown'
     /\ terminateAll'.pc # "none" => isShuttingDown'
     /\ \A c \in Ops :
          (Assigns(c) /\ isShuttingDown) =>
            /\ ops'[c].pc = "done"
            /\ ops'[c].result = Rejected("Thread manager is shutting down")
            /\ threads' = threads /\ workers' = workers
            /\ threadWorkLoads' = threadWorkLoads
            /\ operationCounter' = operationCounter /\ issued' = issued
    ]_vars

\* a call made while the threads are being terminated has been rejected
DrainingRejectsWitness ==
  /\ isShuttingDown
  /\ terminateAll.pc = "grace"
  /\ \E c \in Ops : ops[c].result = Rejected("Thread manager is shutting down")

(***************************************************************************)
(* Properties of terminateAll, terminateThread and the checkpoint.         *)
(***************************************************************************)
\* the thread w is tracked by the pool
Tracked (w) == \E i \in 1..Len(threads) : threads[i] = w
\* the step is the return of terminateAll
TerminateAllReturns == terminateAll.pc = "grace" /\ terminateAll'.pc = "done"

\* C21: terminateAll saves the aggregate state before it terminates any
\* thread, and it returns only after every thread the pool had when it was
\* called has been terminated, with no thread tracked any more: while the
\* state is being saved terminateAll terminates no thread and no running
\* thread leaves the arrays (where the copy terminateAll works on is taken
\* from), and at the return the arrays are empty and every thread of the
\* copy has exited.  The first part is asked of pools within maxThreads.
TerminateAllComplete ==
  [][/\ (/\ terminateAll.pc = "saving" /\ terminateAll'.pc \in {"saving", "grace"}
         /\ Len(threads) <= maxThreads) =>
          \A w \in WorkerIds :
            /\ (Tracked(w) /\ ~Tracked(w)') => workers'[w].status = "exited"
            /\ (workers[w].status = "running" /\ workers'[w].status = "exited") =>
                 \E c \in Ops : RecycleTerminates(c) /\ recycles[c].worker = w
     /\ TerminateAllReturns =>
          /\ threads' = <<>> /\ threadWorkLoads' = <<>>
          /\ \A i \in 1..Len(terminateAll.workers) :
               workers'[terminateAll.workers[i]].status = "exited"
    ]_vars

\* the step is the start of the terminateThread call that the recycleThread
\* of slot c makes
TerminateThreadStarts (c) == recycles[c].pc = "getState" /\ recycles'[c].pc # "getState"

TerminateThreadRejected ==
  \E c \in Ops : recycles[c].pc = "done" /\ recycles[c].worker = 0

\* the step is the end of the loadState call
LoadStateEnds == loading.pc = "read" /\ loading'.pc = "done"
\* the file that loadState read is missing, cannot be decrypted with the
\* password of the pool, or does not hold JSON
Unusable (file, password) ==
  \/ file.kind # "encrypted"
  \/ file.password # password
  \/ ~file.text.json

\* C23: loadState never throws, and when the checkpoint file is missing,
\* undecryptable or unparsable it returns false and leaves operationCounter
\* and metadata as they were.
LoadStateBestEffort ==
  [][LoadStateEnds =>
       /\ loading'.result \in {"true", "false"}
       /\ Unusable(loading.file, poolOptions.encryptionPassword) =>
            /\ loading'.result = "false"
            /\ operationCounter' = operationCounter
            /\ metadata' = metadata
    ]_vars

\* loadState has failed on a file that is there, in a pool that has counted
\* an operation and holds metadata
LoadStateBestEffortWitness ==
  /\ loading.pc = "done" /\ loading.result = "false"
  /\ stateFile.kind # "none"
  /\ operationCounter > 0 /\ metadata # NoMetadata

\* the file that loadState read was written by a saveState call under the
\* password of the pool
Resumable (file, password) ==
  file.kind = "encrypted" /\ file.from # <<>> /\ file.password = password

\* C24: after saveState on a pool with operationCounter n and metadata m,
\* loadState on a pool with the same path and password returns true and
\* leaves operationCounter = n and metadata = m, and it creates no thread
\* and dispatches no operation.
ResumeRestores ==
  [][(LoadStateEnds /\ Resumable(loading.file, poolOptions.encryptionPassword)) =>
       /\ loading'.result = "true"
       /\ operationCounter' = loading.file.from.operations
       /\ metadata' = loading.file.from.metadata
       /\ UNCHANGED <<threads, threadWorkLoads, workers, ops, issued>>
    ]_vars

\* the same for a state whose metadata values JSON can represent
RepresentableResumes ==
  [][(/\ LoadStateEnds /\ Resumable(loading.file, poolOptions.encryptionPassword)
      /\ \A k \in MetaKeys : loading.file.from.metadata[k] # NaN) =>
       /\ loading'.result = "true"
       /\ operationCounter' = loading.file.from.operations
       /\ metadata' = loading.file.from.metadata
       /\ UNCHANGED <<threads, threadWorkLoads, workers, ops, issued>>
    ]_vars

\* a restarted pool has resumed a counter and metadata from the file
RepresentableResumesWitness ==
  /\ loading.pc = "done" /\ loading.result = "true"
  /\ operationCounter > 0 /\ metadata # NoMetadata /\ threads = <<>>

\* the step is the end of the saveState call of slot c
SaveStateEnds (c) == saves[c].pc = "pending" /\ saves'[c].pc # "pending"
\* the step is the end of the saveState call that terminateAll awaits
TerminateAllSaveEnds == terminateAll.pc = "saving" /\ terminateAll'.pc # "saving"

\* C25: a failure of the codec or of the file write during saveState is
\* swallowed, whoever called it: the call returns, the state of the pool is
\* as it was (and the file too when nothing was written), and terminateAll
\* goes on to terminate every thread it tracks.
SaveStateSwallows ==
  [][/\ \A c \in SaveIds : SaveStateEnds(c) =>
          /\ saves'[c].pc = "none"
          /\ UNCHANGED <<threads, threadWorkLoads, operationCounter, metadata,
                         isShuttingDown, workers, ops, autoSaveTimer>>
          /\ stateFile' # stateFile =>
               Resumable(stateFile', poolOptions.encryptionPassword)
     /\ TerminateAllSaveEnds =>
          /\ terminateAll'.pc = "grace" /\ terminateAll'.workers = threads
          /\ \A w \in WorkerIds : Tracked(w) =>
               workers'[w].inbox = Append(workers[w].inbox, Message("shutdown", "", 0))
          /\ UNCHANGED <<threads, threadWorkLoads, operationCounter, metadata,
                         isShuttingDown, ops, autoSaveTimer>>
     /\ TerminateAllReturns =>
          \A i \in 1..Len(terminateAll.workers) :
            workers'[terminateAll.workers[i]].status = "exited"
    ]_vars

\* the saveState call of terminateAll has failed in a pool that has counted
\* an operation, no file was written, and terminateAll has posted shutdown
\* to the thread it tracks
SaveStateSwallowsWitness ==
  /\ terminateAll.pc = "grace" /\ terminateAll.state # <<>> /\ stateFile.kind = "none"
  /\ operationCounter > 0 /\ threads # <<>>
  /\ \A w \in WorkerIds : Tracked(w) =>
       \E i \in 1..Len(workers[w].inbox) : workers[w].inbox[i].action = "shutdown"

(***************************************************************************)
(* Properties of add, of the hash cache and of the exported state.         *)
(***************************************************************************)
\* the step is a call add(e)
AddStep (e) == lastOp'.op = "add" /\ lastOp'.element = e
\* the filter is as the constructor left it, the hasher apart
Fresh == added = {} /\ bloomFilter.hashCache = <<>>

\* add returns TRUE exactly when has answered FALSE just before
AddIffAbsent ==
  [][\A e \in Elements : AddStep(e) =>
       lastOp'.result = ~BloomFilter_has(bloomFilter, e).result
    ]_vars

\* an add that returns FALSE leaves the bit array as it was
RefusedAddKeepsBits ==
  [][\A e \in Elements : (AddStep(e) /\ ~lastOp'.result) =>
       bloomFilter'.bitArray = bloomFilter.bitArray
    ]_vars

\* C26: add(e) returns TRUE exactly when has(e) was FALSE just before, an
\* add that returns FALSE leaves the bit array unchanged, and on a fresh
\* filter add(e); add(e) returns TRUE and then FALSE, for every element e.
AddReportsNew ==
  [][\A e \in Elements : AddStep(e) =>
       /\ lastOp'.result = ~BloomFilter_has(bloomFilter, e).result
       /\ ~lastOp'.result => bloomFilter'.bitArray = bloomFilter.bitArray
       /\ Fresh => lastOp'.result
       /\ (lastOp.op = "add" /\ lastOp.element = e /\ lastOp.result) => ~lastOp'.result
    ]_vars

\* the filter with the oldest entry of its hash cache evicted
Evicted (f) == [f EXCEPT !.hashCache = IF @ = <<>> THEN @ ELSE Tail(@)]

\* C28: the hash cache is transparent: clearing it or evicting an entry at
\* any point changes neither what has and add return for any element nor
\* the bit array that add leaves.
CacheTransparent ==
  \A e \in Elements : \A g \in {clearCache(bloomFilter), Evicted(bloomFilter)} :
    /\ BloomFilter_has(g, e).result = BloomFilter_has(bloomFilter, e).result
    /\ BloomFilter_add(g, e).result = BloomFilter_add(bloomFilter, e).result
    /\ BloomFilter_add(g, e).filter.bitArray = BloomFilter_add(bloomFilter, e).filter.bitArray

\* the filter after import of its own exported state, and a new filter
\* (whose hasher is not ready yet) after import of that state
Reimported (f) == BloomFilter_import(f, BloomFilter_export(f)).filter
ImportedFresh (f) ==
  BloomFilter_import(BloomFilter_new(FilterSize, HashCount), BloomFilter_export(f)).filter

\* C27: a filter that imports the state another filter exported, or its own,
\* answers has as the exporting filter does, for every element.
StateRoundTrip ==
  \A e \in Elements : \A g \in {Reimported(bloomFilter), ImportedFresh(bloomFilter)} :
    BloomFilter_has(g, e).result = BloomFilter_has(bloomFilter, e).result

\* the same, between filters that use the same hasher and whose cache holds
\* no positions of another hasher
SameHasherRoundTrip ==
  (\A i \in 1..Len(bloomFilter.hashCache) :
     bloomFilter.hashCache[i].hashes =
       generateHashesEfficiently(bloomFilter, bloomFilter.hashCache[i].key)) =>
    \A e \in Elements :
      /\ BloomFilter_has(Reimported(bloomFilter), e).result
           = BloomFilter_has(bloomFilter, e).result
      /\ ~bloomFilter.xxHasher =>
           BloomFilter_has(ImportedFresh(bloomFilter), e).result
             = BloomFilter_has(bloomFilter, e).result

\* bitArray.length of a filter
Length (bitArray) == Cardinality({x \in DOMAIN bitArray : x >= 0})
\* the step is a call import(state)
ImportStep == lastOp'.op = "import"
\* a state object as the persisted-state format wants it
WellFormed (state) ==
  /\ state.typed
  /\ state.size >= 1 /\ state.numberOfHashFunctions >= 1
  /\ Length(state.bitArray) = state.size

\* import refuses every state that is not well formed and leaves the
\* filter as it was
ImportValidates ==
  [][ImportStep =>
       \A state \in {held} \cup CraftedStates :
         (FilterImport(state) /\ ~WellFormed(state)) =>
           ~lastOp'.result /\ bloomFilter' = bloomFilter
    ]_vars

\* C29: import refuses, leaving the filter unchanged, every state whose
\* bitArray length differs from its size or whose size or
\* numberOfHashFunctions is not a positive integer; so in every state of a
\* filter bitArray.length = size, size >= 1 and numberOfHashFunctions >= 1.
FilterWellFormed ==
  /\ bloomFilter.size >= 1 /\ bloomFilter.numberOfHashFunctions >= 1
  /\ Length(bloomFilter.bitArray) = bloomFilter.size

\* the step is a write of the caller into the state object it holds
CallerWriteStep == lastOp'.op = "write"

\* C30: the bit array of the live filter and the bit array of a state
\* object that was exported or imported are never the same array: a write
\* of the caller into the state object leaves the filter as it was, and an
\* add or an import of the filter leaves the state object as it was.
NoAliasing ==
  [][/\ CallerWriteStep => bloomFilter' = bloomFilter
     /\ (held.typed /\ (ImportStep \/ \E e \in Elements : AddStep(e))) =>
          held'.bitArray = held.bitArray
    ]_vars

\* the caller has written into the state it exported, the filter has added
\* an element since, and each array holds a bit the other does not
NoAliasingWitness ==
  /\ held.typed /\ lastOp.op = "add" /\ lastOp.result
  /\ bloomFilter.size = held.size
  /\ held.bitArray[0] = 1 /\ bloomFilter.bitArray[0] = 0
  /\ \E i \in DOMAIN held.bitArray : held.bitArray[i] = 0 /\ bloomFilter.bitArray[i] = 1

(***************************************************************************)
(* The codec: Encryption.encrypt and Encryption.decrypt, byte by byte.     *)
(* A blob is what encrypt returns, base64(salt + iv + authTag +            *)
(* ciphertext).  salt, iv and authTag take 96 bytes, a multiple of three,  *)
(* so their 128 characters stand apart from those of the ciphertext: the   *)
(* three are kept as values, the ciphertext as its base64 characters.      *)
(***************************************************************************)
Codec == "Encryption"

\* the longest payload given to encrypt
MaxPayload == 3
\* byte values of a payload
ByteValues == {0, 255}
Payloads == UNION {[1..n -> ByteValues] : n \in 0..MaxPayload}
\* passwords as bytes: "p", "p\0" and "q"
CodecPasswords == {<<112>>, <<112, 0>>, <<113>>}
\* what crypto.randomBytes returns for the salt and for the iv
Salts == {1, 2}
Ivs == {1, 2}

RECURSIVE HmacKey(_)
\* PBKDF2 makes the password an HMAC-SHA512 key: a key shorter than the
\* block of 128 bytes is filled up with zero bytes, so zero bytes at the
\* end of a password do not count
HmacKey (password) ==
  IF password # <<>> /\ password[Len(password)] = 0
    THEN HmacKey(SubSeq(password, 1, Len(password) - 1))
    ELSE password

\* deriveKey: PBKDF2 of the password and the salt
deriveKey (password, salt) == [password |-> HmacKey(password), salt |-> salt]

RECURSIVE Xor(_, _)
\* bitwise exclusive or of two bytes
Xor (a, b) ==
  IF a = 0 /\ b = 0 THEN 0
  ELSE ((a + b) % 2) + 2 * Xor(a \div 2, b \div 2)

RECURSIVE SumBytes(_)
SumBytes (bytes) ==
  IF bytes = <<>> THEN 0 ELSE bytes[1] + SumBytes(SubSeq(bytes, 2, Len(bytes)))

\* AES in counter mode: byte i of the key stream, one fixed byte for each
\* key, iv and position
KeyStream (key, iv, i) ==
  (SumBytes(key.password) * 31 + key.salt * 17 + iv * 101 + i * 59) % 256

\* cipher.update and decipher.update: the data xored with the key stream
cipher_update (data, key, iv) ==
  [i \in 1..Len(data) |-> Xor(data[i], KeyStream(key, iv, i))]

\* cipher.getAuthTag: the GCM tag of the ciphertext under key and iv; no
\* other key, iv or ciphertext gives the same tag
getAuthTag (key, iv, encrypted) == [key |-> key, iv |-> iv, encrypted |-> encrypted]
\* a tag one of whose bytes was changed: no key, iv and ciphertext give it
NoTag == [key |-> deriveKey(<<>>, 0), iv |-> 0, encrypted |-> <<>>]

\* Mutant of decipher_final: the tag is not compared.
decipher_final_unchecked (authTag, key, iv, encrypted) == TRUE

\* decipher.final after setAuthTag: throws unless the tag is the one of
\* what was deciphered
decipher_final (authTag, key, iv, encrypted) == authTag = getAuthTag(key, iv, encrypted)

\* the base64 character "="; the other characters are their values 0..63
Pad == 64

RECURSIVE toString_base64(_)
\* Buffer.toString("base64")
toString_base64 (bytes) ==
  IF Len(bytes) = 0 THEN <<>>
  ELSE IF Len(bytes) = 1
    THEN <<bytes[1] \div 4, (bytes[1] % 4) * 16, Pad, Pad>>
  ELSE IF Len(bytes) = 2
    THEN <<bytes[1] \div 4, (bytes[1] % 4) * 16 + bytes[2] \div 16,
           (bytes[2] % 16) * 4, Pad>>
  ELSE <<bytes[1] \div 4, (bytes[1] % 4) * 16 + bytes[2] \div 16,
         (bytes[2] % 16) * 4 + bytes[3] \div 64, bytes[3] % 64>>
       \o toString_base64(SubSeq(bytes, 4, Len(bytes)))

RECURSIVE base64_decode(_)
\* the decoder on characters without padding: four characters give three
\* bytes; of two or three characters at the end the bits that do not fill
\* a byte are dropped without a look at them
base64_decode (chars) ==
  IF Len(chars) < 2 THEN <<>>
  ELSE IF Len(chars) = 2 THEN <<chars[1] * 4 + chars[2] \div 16>>
  ELSE IF Len(chars) = 3
    THEN <<chars[1] * 4 + chars[2] \div 16, (chars[2] % 16) * 16 + chars[3] \div 4>>
  ELSE <<chars[1] * 4 + chars[2] \div 16, (chars[2] % 16) * 16 + chars[3] \div 4,
         (chars[3] % 4) * 64 + chars[4]>>
       \o base64_decode(SubSeq(chars, 5, Len(chars)))

\* Buffer.from(text, "base64"): the padding at the end is taken off first
Buffer_from_base64 (chars) == base64_decode(SelectSeq(chars, LAMBDA c : c # Pad))

\* Encryption.encrypt of a Buffer; salt and iv are the random bytes drawn
encrypt (data, password, salt, iv) ==
  LET key == deriveKey(password, salt)
      encrypted == cipher_update(data, key, iv)
  IN [salt |-> salt, iv |-> iv, authTag |-> getAuthTag(key, iv, encrypted),
      encrypted |-> toString_base64(encrypted)]

\* Encryption.decrypt without outputEncoding: a Buffer, or the error thrown
decrypt (blob, password) ==
  LET key == deriveKey(password, blob.salt)
      encrypted == Buffer_from_base64(blob.encrypted)
  IN IF decipher_final(blob.authTag, key, blob.iv, encrypted)
       THEN [ok |-> TRUE, data |-> cipher_update(encrypted, key, blob.iv)]
       ELSE [ok |-> FALSE, data |-> <<>>]

\* Under Codec, stateFile is the blob as it travels and lastOp is the
\* history of the calls: the payload and password encrypt was given, the
\* blob it returned, the password decrypt was given and what it returned.
NoCall == [op |-> "none", data |-> <<>>, password |-> <<>>, blob |-> NoFile,
           with |-> <<>>, result |-> [ok |-> FALSE, data |-> <<>>]]

CodecInit ==
  /\ bloomFilter = BloomFilter_new(FilterSize, HashCount)
  /\ added = {}
  /\ lastOp = NoCall
  /\ held = NoState
  /\ service = Codec
  /\ redis = [k \in Keys |-> NoEntity]
  /\ db = [k \in Keys |-> NoEntity]
  /\ calls = [c \in Calls |-> IdleCall]
  /\ stoppedAdds = {}
  /\ bloomFilterInitialized = FALSE
  /\ PoolIdle

codecUnchanged ==
  <<bloomFilter, added, held, service, redis, db, calls, stoppedAdds,
    bloomFilterInitialized, threads, threadWorkLoads, operationCounter,
    isShuttingDown, workers, ops, recycles, terminateAll, issued, poolOptions,
    autoSaveTimer, checkpointVars>>

\* a caller encrypts a payload
Codec_Encrypt (data, password, salt, iv) ==
  /\ service = Codec
  /\ lastOp.op = "none"
  /\ stateFile' = encrypt(data, password, salt, iv)
  /\ lastOp' = [NoCall EXCEPT !.op = "encrypt", !.data = data,
                              !.password = password, !.blob = stateFile']
  /\ UNCHANGED codecUnchanged

\* One byte of the blob changes on its way: the salt, the iv or the tag
\* becomes another one, or one character of the ciphertext becomes another
\* character of the alphabet.
AlteredBlobs (blob) ==
  {[blob EXCEPT !.salt = s] : s \in Salts \ {blob.salt}}
  \cup {[blob EXCEPT !.iv = i] : i \in Ivs \ {blob.iv}}
  \cup {[blob EXCEPT !.authTag = NoTag]}
  \cup UNION {{[blob EXCEPT !.encrypted[n] = c] : c \in (0..63) \ {blob.encrypted[n]}} :
                n \in {m \in 1..Len(blob.encrypted) : blob.encrypted[m] # Pad}}

Env_Alter ==
  /\ service = Codec
  /\ lastOp.op = "encrypt"
  /\ stateFile = lastOp.blob
  /\ \E blob \in AlteredBlobs(stateFile) : stateFile' = blob
  /\ UNCHANGED <<lastOp, codecUnchanged>>

\* a caller decrypts the blob it received
Codec_Decrypt (password) ==
  /\ service = Codec
  /\ lastOp.op = "encrypt"
  /\ lastOp' = [lastOp EXCEPT !.op = "decrypt", !.with = password,
                              !.result = decrypt(stateFile, password)]
  /\ UNCHANGED <<stateFile, codecUnchanged>>

CodecNext ==
  \/ \E data \in Payloads, password \in CodecPasswords, salt \in Salts, iv \in Ivs :
       Codec_Encrypt(data, password, salt, iv)
  \/ Env_Alter
  \/ \E password \in CodecPasswords : Codec_Decrypt(password)

SpecCodec == CodecInit /\ [][CodecNext]_vars

(***************************************************************************)
(* Properties of the codec.                                                *)
(***************************************************************************)
\* a decrypt call has returned or thrown
Decrypted == service = Codec /\ lastOp.op = "decrypt"
\* the blob decrypt was given is the one encrypt returned, character by character
Intact == stateFile = lastOp.blob
\* the blob decrypt was given decodes to the bytes encrypt put together
SameBytes ==
  /\ stateFile.salt = lastOp.blob.salt
  /\ stateFile.iv = lastOp.blob.iv
  /\ stateFile.authTag = lastOp.blob.authTag
  /\ Buffer_from_base64(stateFile.encrypted) = Buffer_from_base64(lastOp.blob.encrypted)
\* the password decrypt was given derives the key encrypt used
SameKey == deriveKey(lastOp.with, stateFile.salt) = deriveKey(lastOp.password, stateFile.salt)

\* decrypt(encrypt(data, pw), pw) is data, for the empty payload too
RoundTrip ==
  Decrypted /\ Intact /\ lastOp.with = lastOp.password
    => lastOp.result.ok /\ lastOp.result.data = lastOp.data

CodecAuthenticWitness ==
  /\ Decrypted /\ Intact /\ lastOp.with = lastOp.password
  /\ lastOp.data = <<>> /\ lastOp.result.ok /\ lastOp.result.data = <<>>

WrongPasswordRefused ==
  Decrypted /\ Intact /\ ~SameKey /\ ~lastOp.result.ok

\* a blob whose last character was altered in bits the decoder drops was
\* decrypted to the payload
AlteredAccepted ==
  Decrypted /\ ~Intact /\ lastOp.with = lastOp.password /\ lastOp.result.ok

\* a password with one more zero byte decrypted the intact blob
OtherPasswordAccepted ==
  Decrypted /\ Intact /\ lastOp.with # lastOp.password /\ lastOp.result.ok

(***************************************************************************)
(* The durable state store: Encryption.saveBloomFilterState and            *)
(* Encryption.loadBloomFilterState, and the load of bootstrap.  The file   *)
(* is followed as a whole, as for the checkpoint of the pool.              *)
(***************************************************************************)
Store == "Encryption.store"
\* ENCRYPTION_KEY of the configuration
ENCRYPTION_KEY == "p"

\* lengths of the bit arrays of the states that are saved
StateSizes == {1, 2}
\* the IBloomFilterState objects given to saveBloomFilterState: what export
\* returns for a filter of such a size
SavedStates ==
  UNION {{[typed |-> TRUE, size |-> n, numberOfHashFunctions |-> k,
           bitArray |-> b, alias |-> FALSE] :
            k \in {1, HashCount}, b \in [0..(n - 1) -> {0, 1}]} : n \in StateSizes}

\* JSON.stringify of a state object: size, numberOfHashFunctions and the
\* elements of bitArray at its indices
stringifyState (state) ==
  [json |-> TRUE, typed |-> state.typed, size |-> state.size,
   numberOfHashFunctions |-> state.numberOfHashFunctions,
   bitArray |-> Spread(state.bitArray)]
\* JSON.parse of such a text: a new object
parseState (text) ==
  [typed |-> text.typed, size |-> text.size,
   numberOfHashFunctions |-> text.numberOfHashFunctions,
   bitArray |-> text.bitArray, alias |-> FALSE]

\* JSON texts that are no filter state: null, and an object whose bitArray
\* is a string
ForeignTexts ==
  {[json |-> TRUE, typed |-> FALSE, size |-> 0, numberOfHashFunctions |-> 0,
    bitArray |-> <<>>],
   [json |-> TRUE, typed |-> FALSE, size |-> FilterSize,
    numberOfHashFunctions |-> HashCount, bitArray |-> <<>>]}

\* saveBloomFilterState: mkdir, JSON.stringify, encrypt, writeFile; when a
\* step throws, the file is as it was and the error is thrown on, wrapped
saveBloomFilterState (file, state, password, ok) ==
  IF ok
    THEN [ok |-> TRUE, file |-> Encryption_encrypt(stringifyState(state), password, state)]
    ELSE [ok |-> FALSE, file |-> file]

\* Mutant of validState: every parsed value is let through.
validState_any (state) == TRUE

\* the check of loadBloomFilterState on the parsed value: it is an object,
\* bitArray is an array, size and numberOfHashFunctions are numbers
validState (state) == state.typed

\* loadBloomFilterState: readFile, decrypt, JSON.parse, the check; what it
\* returns, or the message of the error it throws after the prefix
\* "Failed to load BloomFilter state: "
NoLoaded == [ok |-> FALSE, state |-> NoState, error |-> ""]
loadBloomFilterState (file, password) ==
  LET d == Encryption_decrypt(file, password) IN
  IF file.kind = "none" THEN [NoLoaded EXCEPT !.error = "ENOENT"]
  ELSE IF ~d.ok THEN [NoLoaded EXCEPT !.error = "Decryption failed"]
  ELSE IF ~d.text.json THEN [NoLoaded EXCEPT !.error = "SyntaxError"]
  ELSE IF ~validState(parseState(d.text))
    THEN [NoLoaded EXCEPT !.error = "Invalid bloom filter state"]
  ELSE [ok |-> TRUE, state |-> parseState(d.text), error |-> ""]

\* Under Store, stateFile is the file at filePath and lastOp the history:
\* the state and password of the last save that wrote, the caller, the
\* password and the file of the last load, and what the load returned.
NoStoreOp ==
  [op |-> "none", saved |-> NoState, savedWith |-> "", caller |-> "",
   with |-> "", file |-> NoFile, result |-> NoLoaded]

StoreInit ==
  /\ bloomFilter = BloomFilter_new(FilterSize, HashCount)
  /\ added = {}
  /\ lastOp = NoStoreOp
  /\ held = NoState
  /\ service = Store
  /\ redis = [k \in Keys |-> NoEntity]
  /\ db = [k \in Keys |-> NoEntity]
  /\ calls = [c \in Calls |-> IdleCall]
  /\ stoppedAdds = {}
  /\ bloomFilterInitialized = FALSE
  /\ PoolIdle

\* a caller saves a state
Store_Save (state, password, ok) ==
  LET r == saveBloomFilterState(stateFile, state, password, ok) IN
  /\ service = Store
  /\ stateFile' = r.file
  /\ lastOp' = IF r.ok
                 THEN [lastOp EXCEPT !.op = "save", !.saved = state,
                                     !.savedWith = password]
                 ELSE [lastOp EXCEPT !.op = "save failed"]
  /\ UNCHANGED codecUnchanged

\* the file is removed, damaged, or written by someone else under the
\* configured key
StoreForeignFiles ==
  {NoFile, DamagedFile, Encryption_encrypt(NotJson, ENCRYPTION_KEY, <<>>)}
  \cup {Encryption_encrypt(t, ENCRYPTION_KEY, <<>>) : t \in ForeignTexts}
Env_Replace (file) ==
  /\ service = Store
  /\ file # stateFile
  /\ stateFile' = file
  /\ lastOp' = [lastOp EXCEPT !.op = "replaced"]
  /\ UNCHANGED codecUnchanged

\* a caller loads with a password of its own; bootstrap loads with the
\* configured key and lets the error through
Store_Load (caller, password) ==
  /\ service = Store
  /\ caller = "bootstrap" => password = ENCRYPTION_KEY
  /\ lastOp' = [lastOp EXCEPT !.op = "load", !.caller = caller, !.with = password,
                              !.file = stateFile,
                              !.result = loadBloomFilterState(stateFile, password)]
  /\ UNCHANGED <<stateFile, codecUnchanged>>

StoreNext ==
  \/ \E state \in SavedStates, password \in Passwords, ok \in BOOLEAN :
       Store_Save(state, password, ok)
  \/ \E file \in StoreForeignFiles : Env_Replace(file)
  \/ \E caller \in {"caller", "bootstrap"}, password \in Passwords :
       Store_Load(caller, password)

SpecStore == StoreInit /\ [][StoreNext]_vars

(***************************************************************************)
(* Properties of the durable state store.                                  *)
(***************************************************************************)
StoreLoaded == service = Store /\ lastOp.op = "load"
\* the file that was loaded is the one the last save wrote
LoadedOwnFile ==
  /\ lastOp.saved # NoState
  /\ lastOp.file = Encryption_encrypt(stringifyState(lastOp.saved), lastOp.savedWith,
                                      lastOp.saved)
SameContent (s, t) ==
  /\ s.size = t.size
  /\ s.numberOfHashFunctions = t.numberOfHashFunctions
  /\ s.bitArray = t.bitArray

StoreContractWitness ==
  /\ StoreLoaded /\ lastOp.caller = "bootstrap"
  /\ lastOp.file.kind = "encrypted" /\ lastOp.file.text.json /\ ~lastOp.file.text.typed
  /\ lastOp.result.error = "Invalid bloom filter state"

StoreNotFound == StoreLoaded /\ lastOp.file.kind = "none" /\ ~lastOp.result.ok

(***************************************************************************)
(* The pool as the filter of the lookup service: adds and, after an        *)
(* acknowledged add, checkExists calls, without timeouts and without       *)
(* shutdown.  Every worker thread holds a BloomFilter of its own.          *)
(***************************************************************************)
FilterActions == {"add", "checkExists"}

PoolFilterInit ==
  /\ bloomFilter = BloomFilter_new(FilterSize, HashCount)
  /\ added = {}
  /\ lastOp = NoOp
  /\ held = NoState
  /\ service = PoolFilter
  /\ redis = [k \in Keys |-> NoEntity]
  /\ db = [k \in Keys |-> NoEntity]
  /\ calls = [c \in Calls |-> IdleCall]
  /\ stoppedAdds = {}
  /\ bloomFilterInitialized = FALSE
  /\ PoolIdle

PoolFilterNext ==
  \/ \E c \in Ops, a \in FilterActions : Pool_Assign(c, a, FALSE)
  \/ \E c \in Ops : Pool_CreateDone(c)
  \/ \E c \in Ops : Pool_Dispatch(c)
  \/ \E w \in WorkerIds : Pool_Receive(w)
  \/ \E w \in WorkerIds, i \in 0..NumOps : Worker_Handle(w, i)
  \/ \E c \in Ops : Recycle_GetStateTimeout(c)
  \/ \E c \in Ops : Recycle_Terminate(c)
  \/ \E c \in Ops : Recycle_CreateDone(c)

SpecPoolFilter == PoolFilterInit /\ [][PoolFilterNext]_vars

(***************************************************************************)
(* Properties of the pool as a filter.                                     *)
(***************************************************************************)
\* C33: once an add of a key through the pool was acknowledged, no
\* checkExists for the key through the pool is answered exists=false,
\* whichever worker thread serves it.
PoolNoFalseNegative ==
  service = PoolFilter =>
    \A c \in Ops : ops[c].result # Resolved("exists=false")

\* the worker thread that served the add answers exists=true
SameThreadAnswers ==
  /\ service = PoolFilter /\ PoolPayload \in added
  /\ \E c \in Ops : ops[c].result = Resolved("exists=true")

\* a check is answered exists=false while the thread that served the add
\* is running and tracked: the check went to a second thread
SecondThreadDenies ==
  /\ service = PoolFilter
  /\ \E c \in Ops : ops[c].result = Resolved("exists=false")
  /\ Len(threads) = 2
  /\ \A i \in 1..Len(threads) : workers[threads[i]].status = "running"
  /\ \E i \in 1..Len(threads) :
       BloomFilter_has(workers[threads[i]].bloomFilter, PoolPayload).result

(***************************************************************************)
(* add calls of the lookup service that run at the same time.              *)
(***************************************************************************)
LayerAddsInit ==
  /\ bloomFilter = BloomFilter_new(FilterSize, HashCount)
  /\ added = {}
  /\ lastOp = NoOp
  /\ held = NoState
  /\ service = LayerAdds
  /\ redis = [k \in Keys |-> NoEntity]
  /\ db = [k \in Keys |-> NoEntity]
  /\ calls = [c \in AddCalls |-> IdleCall]
  /\ stoppedAdds = {}
  /\ bloomFilterInitialized = FALSE
  /\ PoolIdle

LayerAddsNext ==
  \/ \E c \in AddCalls, k \in Keys : Layer_Start(c, "add", k)
  \/ \E c \in AddCalls, ok \in BOOLEAN : Layer_CacheReply(c, ok)
  \/ \E c \in AddCalls, ok \in BOOLEAN : Layer_StoreReply(c, ok)
  \/ \E c \in AddCalls, ok \in BOOLEAN : Layer_AddToStoreReply(c, ok)
  \/ \E c \in AddCalls, ok \in BOOLEAN : Layer_AddToCacheReply(c, ok)
  \/ \E c \in AddCalls : Layer_AddToBloomFilter(c)

SpecLayerAdds == LayerAddsInit /\ [][LayerAddsNext]_vars

\* the add calls for key k that have performed the store write
StoreWriters (k) ==
  {c \in AddCalls : calls[c].op = "add" /\ calls[c].key = k
                    /\ \E i \in 1..Len(calls[c].writes) : calls[c].writes[i] = "store"}
\* the add call c ended without a store write and without a failed tier
EndedUnwritten (c) ==
  /\ calls[c].op = "add" /\ calls[c].pc = "done"
  /\ c \notin StoreWriters(calls[c].key)
  /\ calls[c].answers.cache # "error" /\ calls[c].answers.store # "error"
  /\ calls[c].failedWrite = "none"

\* C34: among add calls for one key that run at the same time at most one
\* performs the store write, and every other one that ends fails with
\* AlreadyExists.
AddUnique ==
  service = LayerAdds =>
    /\ \A k \in Keys : Cardinality(StoreWriters(k)) <= 1
    /\ \A c \in AddCalls : EndedUnwritten(c) => calls[c].result = Thrown("AlreadyExists")

\* two add calls for one key that ran at the same time both wrote the store,
\* and the store holds the entity of the later write
BothWrote ==
  /\ service = LayerAdds
  /\ \E k \in Keys : StoreWriters(k) = AddCalls /\ db[k] = EntityOfCall(2)

(***************************************************************************)
(* The pool under fair scheduling: the event loop of the main thread runs  *)
(* every continuation, timer and message event that is due, and a worker   *)
(* thread handles the messages of its inbox while it runs.  Callers are    *)
(* not obliged to call.                                                    *)
(***************************************************************************)
\* the steps of the main thread that belong to the call of slot c
CallStep (c) ==
  \/ Pool_CreateDone(c) \/ Pool_Dispatch(c) \/ Recycle_GetStateTimeout(c)
  \/ Recycle_Terminate(c) \/ Recycle_CreateDone(c)
\* a step of worker thread w, and the condition under which it has one
WorkerStep (w) == \E i \in 0..NumOps : Worker_Handle(w, i)
WorkerCanStep (w) ==
  /\ service \in PoolServices
  /\ workers[w].status = "running"
  /\ workers[w].inbox # <<>> \/ workers[w].suspended # <<>>
\* WF_vars(WorkerStep(w)) written out, with WorkerCanStep(w) for
\* ENABLED <<WorkerStep(w)>>_vars
WorkerFairness (w) == []<>(~WorkerCanStep(w)) \/ []<><<WorkerStep(w)>>_vars
PoolFairness ==
  /\ \A c \in Ops : WF_vars(CallStep(c))
  /\ \A w \in WorkerIds : WF_vars(Pool_Receive(w))
  /\ \A w \in WorkerIds : WorkerFairness(w)

SpecPoolLive == PoolFilterInit /\ [][PoolFilterNext]_vars /\ PoolFairness

\* the call of slot c was dispatched without a timer, its worker thread has
\* exited and holds no response for it: no event is left that settles it
Orphaned (c) ==
  /\ ops[c].pc = "waiting" /\ ~ops[c].timer
  /\ workers[ops[c].worker].status = "exited"
  /\ \A i \in 1..Len(workers[ops[c].worker].outbox) :
       ~Matches(workers[ops[c].worker].outbox[i], ops[c])

\* C35: every assignOperation call that was dispatched is settled in the
\* end, with a result, an error or a timeout.
EverySettles == \A c \in Ops : (ops[c].pc = "waiting") ~> (ops[c].pc = "done")

\* no dispatched call is left without an event that can settle it
NoOrphan == service = PoolFilter => \A c \in Ops : ~Orphaned(c)

\* WorkerCanStep is the condition under which a worker thread has a step
WorkerCanStepIsEnabled ==
  \A w \in WorkerIds : WorkerCanStep(w) <=> ENABLED <<WorkerStep(w)>>_vars

\* a call left without such an event stays so
OrphanStays == [][\A c \in Ops : Orphaned(c) => Orphaned(c)']_vars

(***************************************************************************)
(* Properties of the pool after shutdown.                                  *)
(***************************************************************************)
\* C36: once terminateAll has returned, the pool tracks no worker thread
\* and no worker thread is running, in every state from then on.
NoneOutlivesShutdown ==
  service = Pool /\ terminateAll.pc = "done" =>
    /\ threads = <<>> /\ threadWorkLoads = <<>>
    /\ \A w \in WorkerIds : workers[w].status # "running"

\* terminateAll has returned and a thread created after its return, by a
\* call that was waiting in createThread when terminateAll began, is tracked
\* and running
CreatedAfterShutdown ==
  /\ service = Pool /\ terminateAll.pc = "done" /\ Len(threads) <= maxThreads
  /\ \E i \in 1..Len(threads) : workers[threads[i]].status = "running"

\* terminateAll has returned and a thread that exists is running untracked
UntrackedAfterShutdown ==
  /\ service = Pool /\ terminateAll.pc = "done" /\ threads = <<>>
  /\ \E w \in WorkerIds : workers[w].status = "running"

(***************************************************************************)
(* Properties of the bookkeeping of the pool.                              *)
(***************************************************************************)
\* the terminateThread call of slot c removes a thread other than its own
DropsNeighbour (c) ==
  /\ RecycleTerminates(c) /\ Len(threads) <= maxThreads
  /\ \E x \in WorkerIds \ {recycles[c].worker} : Tracked(x) /\ ~Tracked(x)'

\* C37: the thread list and the workload list have the same length, every
\* running worker thread is tracked (while no terminateAll has begun), and
\* the terminateThread of a recycle removes its own thread only: every
\* other tracked thread is tracked after it.  The last two parts are asked
\* of pools within maxThreads, the second as: no step takes a thread that
\* keeps running out of the list.
BookkeepingExact ==
  [][/\ Len(threads') = Len(threadWorkLoads')
     /\ (terminateAll'.pc = "none" /\ Len(threads) <= maxThreads) =>
          \A w \in WorkerIds :
            (Tracked(w) /\ workers'[w].status = "running") => Tracked(w)'
     /\ \A c \in Ops : ~DropsNeighbour(c)
    ]_vars

\* the two lists have the same length
SameLength == Len(threads) = Len(threadWorkLoads)

\* a worker thread runs untracked in a pool that never exceeded maxThreads
\* and on which terminateAll was not called
RunningUntracked ==
  /\ service = Pool /\ terminateAll.pc = "none"
  /\ Cardinality({w \in WorkerIds : workers[w].status = "running"}) <= maxThreads
  /\ \E w \in WorkerIds : workers[w].status = "running" /\ ~Tracked(w)

(***************************************************************************)
(* EntityLookupService and its pool, from construction to a signal.  The   *)
(* constructor creates the ThreadsManager, whose constructor registers     *)
(* handleShutdown for SIGINT and SIGTERM, then starts initialize(), then   *)
(* registers shutdown() for the same signals.  The initial state is the    *)
(* constructed service with initialize() suspended in loadState; no state  *)
(* file exists, loadState returns and assignOperation("initialize") is     *)
(* called.  The service sends the pool an operation only once              *)
(* bloomFilterInitialized is set.  The signal is followed when it arrives  *)
(* with the filter initialised.                                            *)
(***************************************************************************)
\* the listeners of SIGINT and SIGTERM in the order of their registration,
\* which is the order in which process.emit calls them
SignalListeners == <<"ThreadsManager.handleShutdown", "EntityLookupService.shutdown">>

ServiceActions == {"initialize", "add"}

ShutdownInit ==
  /\ bloomFilter = BloomFilter_new(FilterSize, HashCount)
  /\ added = {}
  /\ lastOp = NoOp
  /\ held = NoState
  /\ service = Shutdown
  /\ redis = [k \in Keys |-> NoEntity]
  /\ db = [k \in Keys |-> NoEntity]
  /\ calls = [c \in Calls |-> IdleCall]
  /\ stoppedAdds = {}
  /\ bloomFilterInitialized = FALSE
  /\ PoolIdle

\* initialize() after its await of assignOperation("initialize"), the call
\* of the first slot: the flag is set when the call resolved, cleared in
\* the catch block when it rejected.
Lookup_Initialized ==
  /\ service = Shutdown
  /\ lastOp.op = "none"
  /\ ~bloomFilterInitialized
  /\ ops[1].pc = "done"
  /\ bloomFilterInitialized' = (ops[1].result.kind = "return")
  /\ lastOp' = [NoOp EXCEPT !.op = "initialize"]
  /\ UNCHANGED <<bloomFilter, added, held, redis, db, calls, stoppedAdds, service,
                 poolVars>>

\* SIGINT or SIGTERM.  handleShutdown runs first: isShuttingDown is false,
\* terminateAll is called and sets isShuttingDown, clears the auto-save
\* timer and suspends in saveState.  shutdown() runs second, in the same
\* turn: the filter is initialised, assignOperation("save", null) reads
\* isShuttingDown and throws, and the catch block logs the error, so
\* shutdown() returns without a terminateAll of its own.  lastOp holds the
\* save call: result is whether the pool accepted it, wasAdded whether a
\* worker thread answered it before isShuttingDown was set.
Process_Signal ==
  LET shuttingDown ==
        IF SignalListeners[1] = "ThreadsManager.handleShutdown"
          THEN TRUE ELSE isShuttingDown
  IN
  /\ service = Shutdown
  /\ bloomFilterInitialized
  /\ ~MicrotasksPending
  /\ terminateAll.pc = "none"
  /\ ~isShuttingDown
  /\ isShuttingDown' = TRUE
  /\ autoSaveTimer' = FALSE
  /\ terminateAll' = [terminateAll EXCEPT !.pc = "saving", !.state = <<>>]
  /\ lastOp' = [op |-> "shutdown", element |-> "save",
                result |-> ~rejectsNewOperations(shuttingDown),
                wasAdded |-> FALSE]
  /\ rejectsNewOperations(shuttingDown)
  /\ UNCHANGED <<bloomFilter, added, held, redis, db, calls, stoppedAdds,
                 bloomFilterInitialized, service, poolOptions, stateFile,
                 checkpointVars, threads, threadWorkLoads, operationCounter,
                 workers, ops, recycles, issued>>

ShutdownNext ==
  \/ \E c \in Ops, a \in ServiceActions : Pool_Assign(c, a, FALSE)
  \/ \E c \in Ops : Pool_CreateDone(c)
  \/ \E c \in Ops : Pool_Dispatch(c)
  \/ \E w \in WorkerIds : Pool_Receive(w)
  \/ \E w \in WorkerIds, i \in 0..NumOps : Worker_Handle(w, i)
  \/ \E c \in Ops : Recycle_GetStateTimeout(c)
  \/ \E c \in Ops : Recycle_Terminate(c)
  \/ \E c \in Ops : Recycle_CreateDone(c)
  \/ Lookup_Initialized
  \/ Process_Signal
  \/ \E ok \in BOOLEAN : TerminateAll_Saved(ok)
  \/ TerminateAll_Terminated

SpecShutdown == ShutdownInit /\ [][ShutdownNext]_vars

(***************************************************************************)
(* Properties of the shutdown.                                             *)
(***************************************************************************)
\* C38: when the signal arrives with the filter initialised, the save
\* operation of the lookup service is accepted by the pool, and the pool
\* rejects operations and terminates worker threads only after a worker
\* thread has answered that save operation.
ShutdownSavesFirst ==
  (service = Shutdown /\ lastOp.op = "shutdown") =>
    /\ lastOp.result
    /\ isShuttingDown => lastOp.wasAdded

\* the signal arrived with the filter initialised and the save operation
\* was rejected by the pool that was already shutting down
SaveRejected ==
  /\ service = Shutdown
  /\ bloomFilterInitialized
  /\ lastOp.op = "shutdown"
  /\ ~lastOp.result

(***************************************************************************)
(* Range of the bit positions.                                             *)
(***************************************************************************)
InRange (f, hashes) == \A i \in 1..Len(hashes) : hashes[i] \in 0..(f.size - 1)

\* C39: every bit position the filter computed for an element, by
\* generateXXHashes or by generateCryptoHashes, is an integer of
\* 0..size-1; the computed positions are those the hash cache holds.
PositionsInRange ==
  service = "BloomFilter" =>
    \A i \in 1..Len(bloomFilter.hashCache) :
      InRange(bloomFilter, bloomFilter.hashCache[i].hashes)

\* the positions of generateXXHashes are in range for every element
XXPositionsInRange ==
  service = "BloomFilter" =>
    \A e \in Elements :
      InRange(bloomFilter, generateXXHashes(bloomFilter, e))

\* the digest fallback computed a negative position from a 32-bit window
\* whose top bit is set
NegativePosition ==
  /\ service = "BloomFilter"
  /\ \E i \in 1..Len(bloomFilter.hashCache) :
       \E j \in 1..Len(bloomFilter.hashCache[i].hashes) :
         /\ bloomFilter.hashCache[i].hashes[j] < 0
         /\ SHA256[bloomFilter.hashCache[i].key][((j - 1) * 4) + 1] >= 128

=============================================================================
